---- MODULE Spec2Model ----
(***************************************************************************)
(* A model of the Xiangqi server of src/server.py: the rules engine        *)
(* (ChessGame), the Room aggregate and the ChessServer session hub.        *)
(*                                                                         *)
(* Spec      the session hub: one action per command handler, each handler *)
(*           run to completion (the commands of one asyncio loop taken one *)
(*           after the other).                                             *)
(* AsyncSpec the session hub with the handlers cut at their awaits: a      *)
(*           handler that is suspended in a send lets the handlers of the  *)
(*           other connections run.                                        *)
(* GameSpec  one ChessGame object driven from its constructor state by     *)
(*           is_valid_move / make_move, as handle_make_move drives it.     *)
(***************************************************************************)
EXTENDS Integers, Sequences, FiniteSets, TLC

VARIABLES
    connections,    \* ChessServer.connections: the registered websocket ids
    user_sessions,  \* ChessServer.user_sessions: websocket id -> username
    rooms,          \* ChessServer.rooms: the Room objects, in dict order
    sent,           \* the frames the last handler sent, in sending order
    ncmds,          \* how many times a handler has run (bounded by MaxCmds)
    creator,        \* history: room id -> the websocket id whose create_room
                    \* made the room, for the rooms of the registry
    tasks,          \* AsyncSpec: websocket id -> where the handle_client task
                    \* of the connection stands (idle, or suspended in a send)
    game,           \* GameSpec: a ChessGame object
    verdict         \* GameSpec: the last is_valid_move call and its answer

vars == <<connections, user_sessions, rooms, sent, ncmds, creator, tasks,
         game, verdict>>

(***************************************************************************)
(* Bounds of the model.                                                    *)
(***************************************************************************)
MaxCmds == 10
MaxMemberCmds == 11
MaxRoomsCmds == 8
MaxChat == 1
MaxGameMoves == 5
MaxJoinCmds == 10
MaxTableCmds == 8
MaxAsyncCmds == 10
MaxCleanupCmds == 11
MaxChatCmds == 11
MaxChatLog == 2
MaxEndgameCmds == 14

Min(a, b) == IF a < b THEN a ELSE b
Max(a, b) == IF a < b THEN b ELSE a
Abs(a) == IF a < 0 THEN 0 - a ELSE a

(***************************************************************************)
(* ChessGame: the rules engine.                                            *)
(***************************************************************************)
None == [type |-> "none", color |-> "none"]

Piece(t, c) == [type |-> t, color |-> c]

BackRank == <<"rook", "horse", "elephant", "advisor", "king",
              "advisor", "elephant", "horse", "rook">>

\* _initialize_board: board[row][col], rows 0..9, columns 0..8
InitialBoard ==
    [row \in 0..9 |-> [col \in 0..8 |->
        CASE row = 0 -> Piece(BackRank[col + 1], "red")
          [] row = 9 -> Piece(BackRank[col + 1], "black")
          [] row = 2 /\ col \in {1, 7} -> Piece("cannon", "red")
          [] row = 7 /\ col \in {1, 7} -> Piece("cannon", "black")
          [] row = 3 /\ col \in {0, 2, 4, 6, 8} -> Piece("pawn", "red")
          [] row = 6 /\ col \in {0, 2, 4, 6, 8} -> Piece("pawn", "black")
          [] OTHER -> None]]

\* ChessGame.__init__
NewChessGame ==
    [board |-> InitialBoard, current_player |-> "red",
     game_status |-> "waiting", winner |-> "none"]

IsValidPawnMove(fr, fc, tr, tc, color) ==
    IF color = "red"
    THEN IF fr <= 4
         THEN tr = fr + 1 /\ tc = fc
         ELSE (tr = fr + 1 /\ tc = fc) \/ (tr = fr /\ Abs(tc - fc) = 1)
    ELSE IF fr >= 5
         THEN tr = fr - 1 /\ tc = fc
         ELSE (tr = fr - 1 /\ tc = fc) \/ (tr = fr /\ Abs(tc - fc) = 1)

\* the squares strictly between two coordinates: range(start + 1, end)
Between(a, b) == (Min(a, b) + 1) .. (Max(a, b) - 1)

IsValidRookMove(board, fr, fc, tr, tc) ==
    IF fr # tr /\ fc # tc THEN FALSE
    ELSE IF fr = tr
         THEN \A col \in Between(fc, tc) : board[fr][col] = None
         ELSE \A row \in Between(fr, tr) : board[row][fc] = None

IsValidHorseMove(board, fr, fc, tr, tc) ==
    LET row_diff == Abs(tr - fr)
        col_diff == Abs(tc - fc)
    IN  IF ~((row_diff = 2 /\ col_diff = 1) \/ (row_diff = 1 /\ col_diff = 2))
        THEN FALSE
        ELSE IF row_diff = 2
             THEN board[fr + (IF tr > fr THEN 1 ELSE -1)][fc] = None
             ELSE board[fr][fc + (IF tc > fc THEN 1 ELSE -1)] = None

IsValidElephantMove(board, fr, fc, tr, tc, color) ==
    IF Abs(tr - fr) # 2 \/ Abs(tc - fc) # 2 THEN FALSE
    ELSE IF color = "red" /\ tr > 4 THEN FALSE
    ELSE IF color = "black" /\ tr < 5 THEN FALSE
    ELSE board[(fr + tr) \div 2][(fc + tc) \div 2] = None

IsValidAdvisorMove(fr, fc, tr, tc, color) ==
    IF Abs(tr - fr) # 1 \/ Abs(tc - fc) # 1 THEN FALSE
    ELSE IF color = "red"
         THEN 0 <= tr /\ tr <= 2 /\ 3 <= tc /\ tc <= 5
         ELSE 7 <= tr /\ tr <= 9 /\ 3 <= tc /\ tc <= 5

\* a king that steps one square, wherever
IsValidKingMoveAnywhere(fr, fc, tr, tc, color) ==
    Abs(tr - fr) + Abs(tc - fc) = 1

IsValidKingMove(fr, fc, tr, tc, color) ==
    IF Abs(tr - fr) + Abs(tc - fc) # 1 THEN FALSE
    ELSE IF color = "red"
         THEN 0 <= tr /\ tr <= 2 /\ 3 <= tc /\ tc <= 5
         ELSE 7 <= tr /\ tr <= 9 /\ 3 <= tc /\ tc <= 5

\* a cannon that may take over any number of screens but none
IsValidCannonMoveAnyScreen(board, fr, fc, tr, tc) ==
    IF fr # tr /\ fc # tc THEN FALSE
    ELSE LET pieces_between ==
                 IF fr = tr
                 THEN Cardinality({col \in Between(fc, tc) : board[fr][col] # None})
                 ELSE Cardinality({row \in Between(fr, tr) : board[row][fc] # None})
         IN  IF board[tr][tc] # None
             THEN pieces_between >= 1
             ELSE pieces_between = 0

IsValidCannonMove(board, fr, fc, tr, tc) ==
    IF fr # tr /\ fc # tc THEN FALSE
    ELSE LET pieces_between ==
                 IF fr = tr
                 THEN Cardinality({col \in Between(fc, tc) : board[fr][col] # None})
                 ELSE Cardinality({row \in Between(fr, tr) : board[row][fc] # None})
         IN  IF board[tr][tc] # None
             THEN pieces_between = 1
             ELSE pieces_between = 0

IsValidPieceMove(board, piece_type, fr, fc, tr, tc, color) ==
    CASE piece_type = "pawn" -> IsValidPawnMove(fr, fc, tr, tc, color)
      [] piece_type = "rook" -> IsValidRookMove(board, fr, fc, tr, tc)
      [] piece_type = "horse" -> IsValidHorseMove(board, fr, fc, tr, tc)
      [] piece_type = "elephant" -> IsValidElephantMove(board, fr, fc, tr, tc, color)
      [] piece_type = "advisor" -> IsValidAdvisorMove(fr, fc, tr, tc, color)
      [] piece_type = "king" -> IsValidKingMove(fr, fc, tr, tc, color)
      [] piece_type = "cannon" -> IsValidCannonMove(board, fr, fc, tr, tc)
      [] OTHER -> FALSE

KingSquares(board, color) ==
    {sq \in (0..9) \X (0..8) : board[sq[1]][sq[2]] = Piece("king", color)}

\* is_valid_move without the facing-kings test
KingsNeverFace(board) == FALSE

\* _would_kings_face_each_other
WouldKingsFaceEachOther(board) ==
    LET reds == KingSquares(board, "red")
        blacks == KingSquares(board, "black")
    IN  IF reds = {} \/ blacks = {} THEN FALSE
        ELSE LET red_king_pos == CHOOSE sq \in reds : TRUE
                 black_king_pos == CHOOSE sq \in blacks : TRUE
             IN  IF red_king_pos[2] # black_king_pos[2] THEN FALSE
                 ELSE \A row \in Between(red_king_pos[1], black_king_pos[1]) :
                          board[row][red_king_pos[2]] = None

\* the board of is_valid_move's temp_board, and of make_move
MovedBoard(board, fr, fc, tr, tc) ==
    [row \in 0..9 |-> [col \in 0..8 |->
        IF row = fr /\ col = fc THEN None
        ELSE IF row = tr /\ col = tc THEN board[fr][fc]
        ELSE board[row][col]]]

\* is_valid_move that asks whose turn it is before it asks whose piece it is
IsValidMoveTurnFirst(g, fr, fc, tr, tc, player_color) ==
    IF ~(0 <= fr /\ fr <= 9 /\ 0 <= fc /\ fc <= 8
         /\ 0 <= tr /\ tr <= 9 /\ 0 <= tc /\ tc <= 8)
    THEN "Invalid position"
    ELSE LET piece == g.board[fr][fc]
             target == g.board[tr][tc]
         IN  IF piece = None THEN "No piece at source position"
             ELSE IF g.current_player # player_color THEN "Not your turn"
             ELSE IF piece.color # player_color THEN "Not your piece"
             ELSE IF target # None /\ target.color = player_color
                  THEN "Cannot capture your own piece"
             ELSE IF ~IsValidPieceMove(g.board, piece.type, fr, fc, tr, tc, piece.color)
                  THEN "Invalid move for this piece"
             ELSE IF WouldKingsFaceEachOther(MovedBoard(g.board, fr, fc, tr, tc))
                  THEN "Kings cannot face each other directly"
             ELSE "Valid move"

\* is_valid_move: the reason it returns; the move is valid iff it is "Valid move"
IsValidMove(g, fr, fc, tr, tc, player_color) ==
    IF ~(0 <= fr /\ fr <= 9 /\ 0 <= fc /\ fc <= 8
         /\ 0 <= tr /\ tr <= 9 /\ 0 <= tc /\ tc <= 8)
    THEN "Invalid position"
    ELSE LET piece == g.board[fr][fc]
             target == g.board[tr][tc]
         IN  IF piece = None THEN "No piece at source position"
             ELSE IF piece.color # player_color THEN "Not your piece"
             ELSE IF g.current_player # player_color THEN "Not your turn"
             ELSE IF target # None /\ target.color = player_color
                  THEN "Cannot capture your own piece"
             ELSE IF ~IsValidPieceMove(g.board, piece.type, fr, fc, tr, tc, piece.color)
                  THEN "Invalid move for this piece"
             ELSE IF WouldKingsFaceEachOther(MovedBoard(g.board, fr, fc, tr, tc))
                  THEN "Kings cannot face each other directly"
             ELSE "Valid move"

\* _is_checkmate that never misses a king
KingsAlwaysThere(board) == FALSE

\* _is_checkmate: a king is missing from the board
IsCheckmate(board) ==
    ~(KingSquares(board, "red") # {} /\ KingSquares(board, "black") # {})

Opponent(color) == IF color = "red" THEN "black" ELSE "red"

\* make_move that leaves the turn where it is
SwitchTurnStuck(current_player) == current_player

\* make_move: switch turn
SwitchTurn(current_player) == Opponent(current_player)

\* make_move
MakeMove(g, fr, fc, tr, tc) ==
    LET board == MovedBoard(g.board, fr, fc, tr, tc)
        current_player == SwitchTurn(g.current_player)
    IN  IF IsCheckmate(board)
        THEN [board |-> board, current_player |-> current_player,
              game_status |-> "finished",
              winner |-> IF current_player = "black" THEN "red" ELSE "black"]
        ELSE [g EXCEPT !.board = board, !.current_player = current_player]

(***************************************************************************)
(* Inputs of the session hub.  A websocket id is str(id(websocket)): an id *)
(* is free again once its connection object is gone.                       *)
(***************************************************************************)
Conns == {"c1", "c2"}
Names == {"alice", "bob"}
RoomIds == {"R1"}
RoomIds2 == {"R1", "R2"}
Conns3 == {"c1", "c2", "c3"}
\* the names a connection asks for under MemberSpec
NameChoices(ws) == IF ws = "c3" THEN {"carol"} ELSE {"alice", "bob"}
NoPassword == "<None>"
JoinRoles == {"player", "spectator"}
\* join_as is whatever the frame carries
AnyJoinRoles == {"player", "spectator", "referee"}
NewRoles == {"player", "spectator"}
ChatTexts == {"hi"}
\* create_room and join_room passwords; texts with the empty one
CreatePasswords == {NoPassword, "p"}
JoinPasswords == {"", "p"}
TableTexts == {"hi", ""}
\* make_move inputs sent to a room: <<from_row, from_col, to_row, to_col>>
RoomMoves == {<<3, 4, 4, 4>>, <<6, 4, 5, 4>>, <<0, 0, 5, 5>>}
NoWs == "<None>"
NoLastMove ==
    [from_row |-> -1, from_col |-> -1, to_row |-> -1, to_col |-> -1, player |-> "<None>"]

(***************************************************************************)
(* Python containers.  A dict that the code reads in insertion order is a  *)
(* sequence of entries; a dict read by key only is a function.             *)
(***************************************************************************)
RECURSIVE SetToSeq(_)
SetToSeq(S) ==
    IF S = {} THEN <<>>
    ELSE LET x == CHOOSE y \in S : TRUE IN <<x>> \o SetToSeq(S \ {x})

RECURSIVE Concat(_)
Concat(ss) == IF ss = <<>> THEN <<>> ELSE Head(ss) \o Concat(Tail(ss))

DictPut(d, k, v) == [x \in (DOMAIN d) \cup {k} |-> IF x = k THEN v ELSE d[x]]
DictPop(d, k) == [x \in (DOMAIN d) \ {k} |-> d[x]]

\* players: websocket_id -> username, in insertion order
PlayerIds(players) == {players[i].ws : i \in DOMAIN players}
PlayersPut(players, ws, username) ==
    IF ws \in PlayerIds(players)
    THEN [i \in DOMAIN players |->
             IF players[i].ws = ws THEN [ws |-> ws, username |-> username]
             ELSE players[i]]
    ELSE Append(players, [ws |-> ws, username |-> username])
PlayersPop(players, ws) == SelectSeq(players, LAMBDA e : e.ws # ws)
PlayerNames(players) == [i \in DOMAIN players |-> players[i].username]

(***************************************************************************)
(* Room.  The room's name, its created_at and the members' join_time are   *)
(* data no handler reads back; they are left out.                          *)
(***************************************************************************)
NewRoom(room_id, password, owner) ==
    [room_id |-> room_id, password |-> password, owner |-> owner,
     owner_websocket_id |-> NoWs, players |-> <<>>, spectators |-> {},
     members |-> <<>>, muted_members |-> {}, chat_history |-> <<>>,
     game_state |-> NewChessGame, last_move |-> NoLastMove]

\* add_member without the check of the player slots
GrantedRoleUncapped(room, role) == role

\* the role add_member grants
GrantedRole(room, role) ==
    IF role = "player" /\ Len(room.players) >= 2 THEN "spectator" ELSE role

\* add_member: the room afterwards (it returns GrantedRole(..) = "player")
AddMember(room, ws, username, role) ==
    LET granted == GrantedRole(room, role)
        r1 == [room EXCEPT
                 !.owner_websocket_id =
                     IF username = room.owner THEN ws ELSE @,
                 !.members = DictPut(@, ws,
                     [username |-> username, role |-> granted, is_muted |-> FALSE])]
    IN  IF granted = "player"
        THEN [r1 EXCEPT !.players = PlayersPut(@, ws, username)]
        ELSE [r1 EXCEPT !.spectators = @ \cup {ws}]

\* change_member_role: [room, ok]
ChangeMemberRole(room, ws, new_role) ==
    IF ws \notin DOMAIN room.members THEN [room |-> room, ok |-> FALSE]
    ELSE LET old_role == room.members[ws].role
             username == room.members[ws].username
             r1 == IF old_role = "player"
                   THEN [room EXCEPT !.players = PlayersPop(@, ws)]
                   ELSE [room EXCEPT !.spectators = @ \ {ws}]
         IN  IF new_role = "player" /\ Len(r1.players) < 2
             THEN [room |-> [r1 EXCEPT !.players = PlayersPut(@, ws, username),
                                       !.members[ws].role = "player"],
                   ok |-> TRUE]
             ELSE IF new_role = "spectator"
             THEN [room |-> [r1 EXCEPT !.spectators = @ \cup {ws},
                                       !.members[ws].role = "spectator"],
                   ok |-> TRUE]
             ELSE [room |-> IF old_role = "player"
                            THEN [r1 EXCEPT !.players = PlayersPut(@, ws, username)]
                            ELSE [r1 EXCEPT !.spectators = @ \cup {ws}],
                   ok |-> FALSE]

\* remove_user: [room, should_delete]
RemoveUser(room, ws) ==
    LET r1 == [room EXCEPT !.players = PlayersPop(@, ws), !.spectators = @ \ {ws}]
    IN  IF ws \in DOMAIN room.members
        THEN [room |-> [r1 EXCEPT !.members = DictPop(@, ws)],
              should_delete |-> room.members[ws].username = room.owner]
        ELSE [room |-> r1, should_delete |-> FALSE]

\* the owner test of kick_member and mute_member
IsOwnerRecord(room, ws) == room.members[ws].username = room.owner

\* kick_member: [room, ok]
KickMember(room, ws) ==
    IF ws \notin DOMAIN room.members THEN [room |-> room, ok |-> FALSE]
    ELSE IF IsOwnerRecord(room, ws) THEN [room |-> room, ok |-> FALSE]
    ELSE [room |-> RemoveUser(room, ws).room, ok |-> TRUE]

\* mute_member: [room, ok]
MuteMember(room, ws) ==
    IF ws \notin DOMAIN room.members THEN [room |-> room, ok |-> FALSE]
    ELSE IF IsOwnerRecord(room, ws) THEN [room |-> room, ok |-> FALSE]
    ELSE [room |-> [room EXCEPT !.members[ws].is_muted = TRUE,
                                !.muted_members = @ \cup {ws}],
          ok |-> TRUE]

\* unmute_member: [room, ok]
UnmuteMember(room, ws) ==
    IF ws \notin DOMAIN room.members THEN [room |-> room, ok |-> FALSE]
    ELSE [room |-> [room EXCEPT !.members[ws].is_muted = FALSE,
                                !.muted_members = @ \ {ws}],
          ok |-> TRUE]

\* a room that never finds anybody muted
NobodyMuted(room, ws) == FALSE

\* is_member_muted
IsMemberMuted(room, ws) == ws \in room.muted_members

IsPrivate(room) == room.password # NoPassword

GetAllUsers(room) == DOMAIN room.members

\* get_member_list (the entries by websocket id; their order is left out)
GetMemberList(room) ==
    [ws \in DOMAIN room.members |->
        [username |-> room.members[ws].username,
         role |-> room.members[ws].role,
         is_owner |-> room.members[ws].username = room.owner,
         is_muted |-> room.members[ws].is_muted]]

\* add_chat_message putting the new entry first
AddChatMessageFirst(room, username, message) ==
    [room EXCEPT !.chat_history = <<[username |-> username, message |-> message]>> \o @]

\* add_chat_message
AddChatMessage(room, username, message) ==
    [room EXCEPT !.chat_history =
        Append(@, [username |-> username, message |-> message])]

(***************************************************************************)
(* ChessServer.                                                            *)
(***************************************************************************)
Msg(to, type, body) == [to |-> to, type |-> type, body |-> body]

ErrorBody(message) == [message |-> message]

\* send_to_user: the frames it sends
SendToUser(ws, type, body) ==
    IF ws \in connections THEN <<Msg(ws, type, body)>> ELSE <<>>

\* the recipients of broadcast_to_room, for the room object as it is at the call
Recipients(room, exclude_sender) ==
    (GetAllUsers(room) \ {exclude_sender}) \cap connections

\* broadcast_to_room: the frames it sends (the recipients are a Python set: its
\* iteration order is taken as one fixed order)
BroadcastToRoom(room, type, body, exclude_sender) ==
    LET to == SetToSeq(Recipients(room, exclude_sender))
    IN  [i \in DOMAIN to |-> Msg(to[i], type, body)]

RoomIdsInUse == {rooms[i].room_id : i \in DOMAIN rooms}

\* the first of the rooms found, in dict order (their indexes); 0 when none is
FirstIndex(found) ==
    IF found = {} THEN 0
    ELSE CHOOSE i \in found : \A j \in found : i <= j

RoomIndex(room_id) == FirstIndex({n \in DOMAIN rooms : rooms[n].room_id = room_id})

\* one more handler has run
Ran == ncmds' = ncmds + 1

\* a handler run to completion: no task is left suspended, no engine call
EngineIdle == UNCHANGED <<game, verdict, tasks>>

\* what the handlers that neither make nor delete a room leave alone
SessionOnly == EngineIdle /\ UNCHANGED creator

\* register_connection
RegisterConnection(ws) ==
    /\ ws \notin connections
    /\ Ran
    /\ connections' = connections \cup {ws}
    /\ sent' = <<>>
    /\ UNCHANGED <<user_sessions, rooms>>
    /\ SessionOnly

\* the rooms unregister_connection deletes: those whose remove_user returned True
RoomsToDelete(ws) ==
    {i \in DOMAIN rooms : RemoveUser(rooms[i], ws).should_delete}

\* the rooms after unregister_connection's loops
RoomsAfterUnregister(ws) ==
    LET removed == [i \in DOMAIN rooms |-> RemoveUser(rooms[i], ws).room]
        order == SelectSeq([i \in DOMAIN rooms |-> i],
                           LAMBDA i : i \notin RoomsToDelete(ws))
    IN  [k \in DOMAIN order |-> removed[order[k]]]

\* unregister_connection (handle_client's finally, once the connection closes)
UnregisterConnection(ws) ==
    /\ ws \in connections
    /\ Ran
    /\ sent' = Concat([i \in DOMAIN rooms |->
                 IF i \in RoomsToDelete(ws)
                 THEN BroadcastToRoom(RemoveUser(rooms[i], ws).room, "room_deleted",
                                      [message |-> "owner left, room closing"], NoWs)
                 ELSE <<>>])
    /\ rooms' = RoomsAfterUnregister(ws)
    /\ creator' = [room_id \in {rooms'[i].room_id : i \in DOMAIN rooms'}
                      |-> creator[room_id]]
    /\ connections' = connections \ {ws}
    /\ user_sessions' = DictPop(user_sessions, ws)
    /\ EngineIdle

\* handle_set_username without the test
NameNeverTaken(ws, username) == FALSE

\* the name test of handle_set_username
NameTaken(ws, username) ==
    \E other \in DOMAIN user_sessions :
        other # ws /\ user_sessions[other] = username

\* handle_set_username
HandleSetUsername(ws, username) ==
    /\ ws \in connections
    /\ Ran
    /\ IF username = ""
       THEN /\ sent' = SendToUser(ws, "error", ErrorBody("Username cannot be empty"))
            /\ UNCHANGED user_sessions
       ELSE IF NameTaken(ws, username)
       THEN /\ sent' = SendToUser(ws, "error", ErrorBody("username taken"))
            /\ UNCHANGED user_sessions
       ELSE /\ user_sessions' = DictPut(user_sessions, ws, username)
            /\ sent' = SendToUser(ws, "username_set", [username |-> username])
    /\ UNCHANGED <<connections, rooms>>
    /\ SessionOnly

\* handle_create_room (room_id: an id create_room finds unused)
HandleCreateRoom(ws, password, room_id) ==
    /\ ws \in connections
    /\ Ran
    /\ IF ws \notin DOMAIN user_sessions
       THEN /\ sent' = SendToUser(ws, "error", ErrorBody("Please set username first"))
            /\ UNCHANGED <<rooms, creator>>
       ELSE /\ room_id \notin RoomIdsInUse
            /\ rooms' = Append(rooms, NewRoom(room_id, password, user_sessions[ws]))
            /\ creator' = DictPut(creator, room_id, ws)
            /\ sent' = SendToUser(ws, "room_created",
                           [room_id |-> room_id, is_private |-> password # NoPassword])
    /\ UNCHANGED <<connections, user_sessions>>
    /\ EngineIdle

GameStateBody(room) ==
    [board |-> room.game_state.board,
     current_player |-> room.game_state.current_player,
     game_status |-> room.game_state.game_status,
     winner |-> room.game_state.winner]

\* handle_join_room without the password test of private rooms
JoinErrorAnyPassword(ws, room_id, password) ==
    IF ws \notin DOMAIN user_sessions THEN "Please set username first"
    ELSE IF room_id \notin RoomIdsInUse THEN "Room not found"
    ELSE ""

\* handle_join_room: the error it answers with, "" when it lets the caller in
JoinError(ws, room_id, password) ==
    IF ws \notin DOMAIN user_sessions THEN "Please set username first"
    ELSE IF room_id \notin RoomIdsInUse THEN "Room not found"
    ELSE IF IsPrivate(rooms[RoomIndex(room_id)])
            /\ password # rooms[RoomIndex(room_id)].password
    THEN "Incorrect password"
    ELSE ""

\* handle_join_room: the rooms after a join that is let in
JoinedRooms(ws, room_id, join_as) ==
    [rooms EXCEPT ![RoomIndex(room_id)] = AddMember(@, ws, user_sessions[ws], join_as)]

\* handle_join_room
HandleJoinRoom(ws, room_id, password, join_as) ==
    /\ ws \in connections
    /\ Ran
    /\ IF JoinError(ws, room_id, password) # ""
       THEN /\ sent' = SendToUser(ws, "error", ErrorBody(JoinError(ws, room_id, password)))
            /\ UNCHANGED rooms
       ELSE LET i == RoomIndex(room_id)
                username == user_sessions[ws]
                joined == JoinedRooms(ws, room_id, join_as)[i]
                actual_role ==
                    IF GrantedRole(rooms[i], join_as) = "player"
                    THEN "player" ELSE "spectator"
            IN  /\ rooms' = JoinedRooms(ws, room_id, join_as)
                /\ sent' =
                     SendToUser(ws, "joined_room",
                         [room_id |-> room_id, join_as |-> actual_role,
                          players |-> PlayerNames(joined.players),
                          spectators |-> Cardinality(joined.spectators),
                          member_list |-> GetMemberList(joined),
                          chat_history |-> joined.chat_history,
                          last_move |-> joined.last_move,
                          game_state |-> GameStateBody(joined)])
                     \o BroadcastToRoom(joined, "user_joined",
                         [username |-> username, join_as |-> actual_role,
                          players |-> PlayerNames(joined.players),
                          spectators |-> Cardinality(joined.spectators),
                          member_list |-> GetMemberList(joined)], ws)
    /\ UNCHANGED <<connections, user_sessions>>
    /\ SessionOnly

SessionName(ws) ==
    IF ws \in DOMAIN user_sessions THEN user_sessions[ws] ELSE "Unknown"

\* handle_leave_room: the room it takes the caller out of (0: none)
RoomToLeave(rs, ws) == FirstIndex({n \in DOMAIN rs : ws \in GetAllUsers(rs[n])})

\* handle_leave_room: the rooms afterwards (remove_user's answer is not read)
LeftRooms(rs, ws) ==
    IF RoomToLeave(rs, ws) = 0 THEN rs
    ELSE [rs EXCEPT ![RoomToLeave(rs, ws)] = RemoveUser(@, ws).room]

\* handle_leave_room
HandleLeaveRoom(ws) ==
    /\ ws \in connections
    /\ Ran
    /\ rooms' = LeftRooms(rooms, ws)
    /\ LET i == RoomToLeave(rooms, ws)
       IN  IF i = 0
           THEN sent' = SendToUser(ws, "left_room", <<>>)
           ELSE LET left == LeftRooms(rooms, ws)[i]
                IN  sent' = BroadcastToRoom(left, "user_left",
                                [username |-> SessionName(ws),
                                 players |-> PlayerNames(left.players),
                                 spectators |-> Cardinality(left.spectators)], NoWs)
                            \o SendToUser(ws, "left_room", <<>>)
    /\ UNCHANGED <<connections, user_sessions>>
    /\ SessionOnly

RoomInfo(room) ==
    [room_id |-> room.room_id, is_private |-> IsPrivate(room),
     players |-> Len(room.players), spectators |-> Cardinality(room.spectators),
     game_status |-> room.game_state.game_status]

\* handle_get_room_list
HandleGetRoomList(ws) ==
    /\ ws \in connections
    /\ Ran
    /\ sent' = SendToUser(ws, "room_list",
                   [rooms |-> [i \in DOMAIN rooms |-> RoomInfo(rooms[i])]])
    /\ UNCHANGED <<connections, user_sessions, rooms>>
    /\ SessionOnly

\* the text of the accusation: f"{username} may be cheating, intercepted!"
CheatNotice(username) == <<username, "may be cheating, intercepted!">>

\* handle_chat_message, for logs that hold up to max_chat entries
HandleChatMessageWithin(ws, chat_text, max_chat) ==
    /\ ws \in connections
    /\ Ran
    /\ IF ws \notin DOMAIN user_sessions \/ chat_text = ""
       THEN /\ sent' = <<>>
            /\ UNCHANGED rooms
       ELSE LET i == FirstIndex({n \in DOMAIN rooms : ws \in GetAllUsers(rooms[n])})
            IN  IF i = 0
                THEN /\ sent' = <<>>
                     /\ UNCHANGED rooms
                ELSE IF IsMemberMuted(rooms[i], ws)
                THEN /\ sent' = SendToUser(ws, "chat_rejected", [reason |-> "muted"])
                     /\ UNCHANGED rooms
                ELSE LET said == AddChatMessage(rooms[i], user_sessions[ws], <<chat_text>>)
                     IN  /\ Len(rooms[i].chat_history) < max_chat
                         /\ rooms' = [rooms EXCEPT ![i] = said]
                         /\ sent' = BroadcastToRoom(said, "chat_message",
                                        [username |-> user_sessions[ws],
                                         message |-> <<chat_text>>], NoWs)
    /\ UNCHANGED <<connections, user_sessions>>
    /\ SessionOnly

\* handle_chat_message
HandleChatMessage(ws, chat_text) == HandleChatMessageWithin(ws, chat_text, MaxChat)

\* a last_move that has the two squares of the move the wrong way round
LastMoveReversed(mv, username) ==
    [from_row |-> mv[3], from_col |-> mv[4],
     to_row |-> mv[1], to_col |-> mv[2], player |-> username]

\* handle_make_move: the last_move it stores for an accepted move
LastMove(mv, username) ==
    [from_row |-> mv[1], from_col |-> mv[2],
     to_row |-> mv[3], to_col |-> mv[4], player |-> username]

\* handle_make_move answering the caller before it accuses them in the room
RejectedMoveFramesSwapped(room, ws, username, reason) ==
    SendToUser(ws, "move_rejected", [reason |-> reason])
    \o BroadcastToRoom(room, "chat_message",
        [username |-> "System", message |-> CheatNotice(username)], NoWs)

\* the frames handle_make_move sends for a move is_valid_move rejected
RejectedMoveFrames(room, ws, username, reason) ==
    BroadcastToRoom(room, "chat_message",
        [username |-> "System", message |-> CheatNotice(username)], NoWs)
    \o SendToUser(ws, "move_rejected", [reason |-> reason])

\* handle_make_move, for logs that hold up to max_chat entries
HandleMakeMoveWithin(ws, mv, max_chat) ==
    /\ ws \in connections
    /\ Ran
    /\ IF ws \notin DOMAIN user_sessions
       THEN /\ sent' = <<>>
            /\ UNCHANGED rooms
       ELSE LET i == FirstIndex({n \in DOMAIN rooms : ws \in PlayerIds(rooms[n].players)})
                username == user_sessions[ws]
            IN  IF i = 0
                THEN /\ sent' = SendToUser(ws, "error",
                                    ErrorBody("You are not a player in any room"))
                     /\ UNCHANGED rooms
                ELSE IF Len(rooms[i].players) # 2
                THEN /\ sent' = SendToUser(ws, "error",
                                    ErrorBody("Need 2 players to make moves"))
                     /\ UNCHANGED rooms
                ELSE LET room == rooms[i]
                         player_color ==
                             IF room.players[1].ws = ws THEN "red" ELSE "black"
                         reason == IsValidMove(room.game_state,
                                       mv[1], mv[2], mv[3], mv[4], player_color)
                     IN  IF reason # "Valid move"
                         THEN LET accused == AddChatMessage(room, "System",
                                                 CheatNotice(username))
                              IN  /\ Len(room.chat_history) < max_chat
                                  /\ rooms' = [rooms EXCEPT ![i] = accused]
                                  /\ sent' = RejectedMoveFrames(accused, ws, username, reason)
                         ELSE LET last_move == LastMove(mv, username)
                                  moved ==
                                      [room EXCEPT
                                         !.game_state = MakeMove(@, mv[1], mv[2], mv[3], mv[4]),
                                         !.last_move = last_move]
                              IN  /\ rooms' = [rooms EXCEPT ![i] = moved]
                                  /\ sent' = BroadcastToRoom(moved, "move_made",
                                       [from_row |-> mv[1], from_col |-> mv[2],
                                        to_row |-> mv[3], to_col |-> mv[4],
                                        player |-> username,
                                        current_player |-> moved.game_state.current_player,
                                        game_status |-> moved.game_state.game_status,
                                        winner |-> moved.game_state.winner,
                                        board |-> moved.game_state.board,
                                        last_move |-> last_move], NoWs)
    /\ UNCHANGED <<connections, user_sessions>>
    /\ SessionOnly

\* handle_make_move
HandleMakeMove(ws, mv) == HandleMakeMoveWithin(ws, mv, MaxChat)

\* handle_start_game
HandleStartGame(ws) ==
    /\ ws \in connections
    /\ Ran
    /\ LET i == FirstIndex({n \in DOMAIN rooms : LET room == rooms[n] IN
                    /\ ws \in DOMAIN user_sessions
                    /\ room.owner = user_sessions[ws]
                    /\ ws \in PlayerIds(room.players)})
       IN  IF i = 0
           THEN /\ sent' = SendToUser(ws, "error",
                               ErrorBody("Only room owner can start the game"))
                /\ UNCHANGED rooms
           ELSE IF Len(rooms[i].players) # 2
           THEN /\ sent' = SendToUser(ws, "error",
                               ErrorBody("Need 2 players to start game"))
                /\ UNCHANGED rooms
           ELSE LET started == [rooms[i] EXCEPT !.game_state.game_status = "playing"]
                IN  /\ rooms' = [rooms EXCEPT ![i] = started]
                    /\ sent' = BroadcastToRoom(started, "game_started",
                                   [current_player |-> started.game_state.current_player,
                                    board |-> started.game_state.board], NoWs)
    /\ UNCHANGED <<connections, user_sessions>>
    /\ SessionOnly

\* the room search of handle_change_member_role and handle_kick_member
OwnedRoomByName(ws) ==
    FirstIndex({n \in DOMAIN rooms : LET room == rooms[n] IN
        ws \in DOMAIN room.members /\ room.owner = user_sessions[ws]})

\* the room search of handle_mute_member and handle_unmute_member
OwnedRoomById(ws) ==
    FirstIndex({n \in DOMAIN rooms : LET room == rooms[n] IN
        ws \in DOMAIN room.members /\ ws = room.owner_websocket_id})

\* handle_change_member_role
HandleChangeMemberRole(ws, target, new_role) ==
    /\ ws \in connections
    /\ Ran
    /\ IF ws \notin DOMAIN user_sessions
       THEN /\ sent' = <<>>
            /\ UNCHANGED rooms
       ELSE LET i == OwnedRoomByName(ws)
            IN  IF i = 0
                THEN /\ sent' = SendToUser(ws, "error",
                                    ErrorBody("You are not a room owner or not in any room"))
                     /\ UNCHANGED rooms
                ELSE IF target \notin DOMAIN rooms[i].members
                THEN /\ sent' = SendToUser(ws, "error", ErrorBody("Target user not in room"))
                     /\ UNCHANGED rooms
                ELSE LET res == ChangeMemberRole(rooms[i], target, new_role)
                     IN  /\ rooms' = [rooms EXCEPT ![i] = res.room]
                         /\ sent' =
                              IF res.ok
                              THEN BroadcastToRoom(res.room, "member_role_changed",
                                       [username |-> res.room.members[target].username,
                                        new_role |-> new_role,
                                        member_list |-> GetMemberList(res.room),
                                        players |-> PlayerNames(res.room.players),
                                        spectators |-> Cardinality(res.room.spectators)],
                                       NoWs)
                              ELSE SendToUser(ws, "error", ErrorBody("Failed to change role"))
    /\ UNCHANGED <<connections, user_sessions>>
    /\ SessionOnly

\* handle_kick_member
HandleKickMember(ws, target) ==
    /\ ws \in connections
    /\ Ran
    /\ IF ws \notin DOMAIN user_sessions
       THEN /\ sent' = <<>>
            /\ UNCHANGED rooms
       ELSE LET i == OwnedRoomByName(ws)
            IN  IF i = 0
                THEN /\ sent' = SendToUser(ws, "error",
                                    ErrorBody("You are not a room owner or not in any room"))
                     /\ UNCHANGED rooms
                ELSE LET res == KickMember(rooms[i], target)
                     IN  /\ rooms' = [rooms EXCEPT ![i] = res.room]
                         /\ sent' =
                              IF res.ok
                              THEN SendToUser(target, "kicked_from_room",
                                       [message |-> "kicked by the owner"])
                                   \o BroadcastToRoom(res.room, "member_kicked",
                                       [username |-> SessionName(target),
                                        member_list |-> GetMemberList(res.room),
                                        players |-> PlayerNames(res.room.players),
                                        spectators |-> Cardinality(res.room.spectators)],
                                       target)
                              ELSE SendToUser(ws, "error", ErrorBody("Failed to kick member"))
    /\ UNCHANGED <<connections, user_sessions>>
    /\ SessionOnly

\* handle_mute_member
HandleMuteMember(ws, target) ==
    /\ ws \in connections
    /\ Ran
    /\ LET i == OwnedRoomById(ws)
       IN  IF i = 0
           THEN /\ sent' = SendToUser(ws, "error",
                               ErrorBody("Only room owner can mute members"))
                /\ UNCHANGED rooms
           ELSE IF target \notin DOMAIN rooms[i].members
           THEN /\ sent' = SendToUser(ws, "error", ErrorBody("Target user not in room"))
                /\ UNCHANGED rooms
           ELSE LET res == MuteMember(rooms[i], target)
                IN  /\ rooms' = [rooms EXCEPT ![i] = res.room]
                    /\ sent' =
                         IF res.ok
                         THEN BroadcastToRoom(res.room, "member_muted",
                                  [username |-> rooms[i].members[target].username,
                                   member_list |-> GetMemberList(res.room)], NoWs)
                         ELSE SendToUser(ws, "error", ErrorBody("Failed to mute member"))
    /\ UNCHANGED <<connections, user_sessions>>
    /\ SessionOnly

\* handle_unmute_member
HandleUnmuteMember(ws, target) ==
    /\ ws \in connections
    /\ Ran
    /\ LET i == OwnedRoomById(ws)
       IN  IF i = 0
           THEN /\ sent' = SendToUser(ws, "error",
                               ErrorBody("Only room owner can unmute members"))
                /\ UNCHANGED rooms
           ELSE IF target \notin DOMAIN rooms[i].members
           THEN /\ sent' = SendToUser(ws, "error", ErrorBody("Target user not in room"))
                /\ UNCHANGED rooms
           ELSE LET res == UnmuteMember(rooms[i], target)
                IN  /\ rooms' = [rooms EXCEPT ![i] = res.room]
                    /\ sent' =
                         IF res.ok
                         THEN BroadcastToRoom(res.room, "member_unmuted",
                                  [username |-> rooms[i].members[target].username,
                                   member_list |-> GetMemberList(res.room)], NoWs)
                         ELSE SendToUser(ws, "error", ErrorBody("Failed to unmute member"))
    /\ UNCHANGED <<connections, user_sessions>>
    /\ SessionOnly

(***************************************************************************)
(* The session hub as a state machine.                                     *)
(***************************************************************************)
\* handle_private_message (msg_content: the text after strip())
HandlePrivateMessage(ws, target_username, msg_content) ==
    /\ ws \in connections
    /\ Ran
    /\ sent' =
         IF ws \notin DOMAIN user_sessions THEN <<>>
         ELSE IF target_username = "" \/ msg_content = ""
         THEN SendToUser(ws, "error", ErrorBody("Invalid private message"))
         ELSE LET holders == {t \in DOMAIN user_sessions :
                                 user_sessions[t] = target_username}
              IN  IF holders = {}
                  THEN SendToUser(ws, "error", ErrorBody("User not found"))
                  ELSE LET target == CHOOSE t \in holders : TRUE
                           private_msg ==
                               [from |-> user_sessions[ws], to |-> target_username,
                                message |-> msg_content]
                       IN  SendToUser(target, "private_message", private_msg)
                           \o SendToUser(ws, "private_message_sent", private_msg)
    /\ UNCHANGED <<connections, user_sessions, rooms>>
    /\ SessionOnly

\* handle_get_member_list
HandleGetMemberList(ws) ==
    /\ ws \in connections
    /\ Ran
    /\ LET i == FirstIndex({n \in DOMAIN rooms : ws \in DOMAIN rooms[n].members})
       IN  sent' =
             IF i # 0
             THEN SendToUser(ws, "member_list",
                      [member_list |-> GetMemberList(rooms[i]),
                       is_owner |-> ws = rooms[i].owner_websocket_id])
             ELSE SendToUser(ws, "error", ErrorBody("Not in any room"))
    /\ UNCHANGED <<connections, user_sessions, rooms>>
    /\ SessionOnly

\* a handle_client task that is not inside a handler
Idle == [kind |-> "idle"]

\* a move of which only the board is written
AppliedMoveHalf(room, mv, username) ==
    [room EXCEPT !.game_state.board =
                     MakeMove(room.game_state, mv[1], mv[2], mv[3], mv[4]).board]

\* make_move and the record of the last move, as handle_make_move applies an
\* accepted move: no await lies between is_valid_move and these assignments
AppliedMove(room, mv, username) ==
    [room EXCEPT !.game_state = MakeMove(@, mv[1], mv[2], mv[3], mv[4]),
                 !.last_move = LastMove(mv, username)]

(***************************************************************************)
(* The handlers cut at their awaits.  Every connection has one             *)
(* handle_client task; a task runs without interruption from one await of  *)
(* a websocket send to the next, and while it is suspended in a send the   *)
(* tasks of the other connections run.  broadcast_to_room fixes its        *)
(* recipients at the call, tests `in self.connections` and serializes the  *)
(* message anew before every send; a message that holds the board holds a  *)
(* reference to the room's board list, which make_move changes in place.   *)
(* The recipients are a Python set: the sends may come in any order.       *)
(* Handlers that change nothing after their first send (set_username,      *)
(* create_room, join_room) are taken in one step.                          *)
(***************************************************************************)
\* every connection of AsyncSpec has one display name
AsyncName(ws) ==
    IF ws = "c1" THEN "alice" ELSE IF ws = "c2" THEN "bob" ELSE "carol"

\* a message that holds no board
NoRoom == "<None>"

\* a task whose connection is closed and cleaned up
Closed == [kind |-> "closed"]

\* a task that ended with an exception inside unregister_connection
Dead == [kind |-> "dead"]

\* what a handler does after a broadcast: nothing more
Return == [kind |-> "return"]

\* a task suspended in the send of one frame of a broadcast: `to` are the
\* recipients still to come, board_of the room whose board the message refers
\* to (NoRoom: none), then what the handler does after the broadcast
Sending(to, type, body, board_of, then) ==
    [kind |-> "sending", to |-> to, type |-> type, body |-> body,
     board_of |-> board_of, then |-> then]

\* json.dumps(message) as a suspended broadcast evaluates it now: the board is
\* read from the room
BodyNow(task) ==
    IF task.board_of # NoRoom
    THEN [task.body EXCEPT !.board = rooms[RoomIndex(task.board_of)].game_state.board]
    ELSE task.body

\* broadcast_to_room from its call to its first await, then the rest of a
\* handler that only sends (then: Return, or the move_rejected answer): the
\* frame sent in this step and the task afterwards
SendOrThen(ws, to, type, body, board_of, then) ==
    IF to \cap connections = {}
    THEN /\ sent' = IF then.kind = "reject"
                    THEN SendToUser(ws, "move_rejected", [reason |-> then.reason])
                    ELSE <<>>
         /\ tasks' = [tasks EXCEPT ![ws] = Idle]
    ELSE \E next \in to \cap connections :
            /\ sent' = <<Msg(next, type, body)>>
            /\ tasks' = [tasks EXCEPT ![ws] =
                            IF to = {next} /\ then = Return THEN Idle
                            ELSE Sending(to \ {next}, type, body, board_of, then)]

\* handle_start_game, to its first await
AsyncStartGame(ws) ==
    /\ ws \in connections
    /\ tasks[ws] = Idle
    /\ Ran
    /\ LET i == FirstIndex({n \in DOMAIN rooms : LET room == rooms[n] IN
                    /\ ws \in DOMAIN user_sessions
                    /\ room.owner = user_sessions[ws]
                    /\ ws \in PlayerIds(room.players)})
       IN  IF i = 0
           THEN /\ sent' = SendToUser(ws, "error",
                               ErrorBody("Only room owner can start the game"))
                /\ UNCHANGED <<rooms, tasks>>
           ELSE IF Len(rooms[i].players) # 2
           THEN /\ sent' = SendToUser(ws, "error",
                               ErrorBody("Need 2 players to start game"))
                /\ UNCHANGED <<rooms, tasks>>
           ELSE LET started == [rooms[i] EXCEPT !.game_state.game_status = "playing"]
                IN  /\ rooms' = [rooms EXCEPT ![i] = started]
                    /\ SendOrThen(ws, GetAllUsers(started), "game_started",
                           [current_player |-> started.game_state.current_player,
                            board |-> started.game_state.board],
                           started.room_id, Return)
    /\ UNCHANGED <<connections, user_sessions, creator, game, verdict>>

\* handle_make_move, to its first await
AsyncMakeMove(ws, mv) ==
    /\ ws \in connections
    /\ tasks[ws] = Idle
    /\ Ran
    /\ IF ws \notin DOMAIN user_sessions
       THEN /\ sent' = <<>>
            /\ UNCHANGED <<rooms, tasks>>
       ELSE LET i == FirstIndex({n \in DOMAIN rooms : ws \in PlayerIds(rooms[n].players)})
                username == user_sessions[ws]
            IN  IF i = 0
                THEN /\ sent' = SendToUser(ws, "error",
                                    ErrorBody("You are not a player in any room"))
                     /\ UNCHANGED <<rooms, tasks>>
                ELSE IF Len(rooms[i].players) # 2
                THEN /\ sent' = SendToUser(ws, "error",
                                    ErrorBody("Need 2 players to make moves"))
                     /\ UNCHANGED <<rooms, tasks>>
                ELSE LET room == rooms[i]
                         player_color ==
                             IF room.players[1].ws = ws THEN "red" ELSE "black"
                         reason == IsValidMove(room.game_state,
                                       mv[1], mv[2], mv[3], mv[4], player_color)
                     IN  IF reason # "Valid move"
                         THEN LET accused == AddChatMessage(room, "System",
                                                 CheatNotice(username))
                              IN  /\ Len(room.chat_history) < MaxChat
                                  /\ rooms' = [rooms EXCEPT ![i] = accused]
                                  /\ SendOrThen(ws, GetAllUsers(accused), "chat_message",
                                         [username |-> "System",
                                          message |-> CheatNotice(username)],
                                         NoRoom, [kind |-> "reject", reason |-> reason])
                         ELSE LET moved == AppliedMove(room, mv, username)
                              IN  /\ rooms' = [rooms EXCEPT ![i] = moved]
                                  /\ SendOrThen(ws, GetAllUsers(moved), "move_made",
                                       [from_row |-> mv[1], from_col |-> mv[2],
                                        to_row |-> mv[3], to_col |-> mv[4],
                                        player |-> username,
                                        current_player |-> moved.game_state.current_player,
                                        game_status |-> moved.game_state.game_status,
                                        winner |-> moved.game_state.winner,
                                        board |-> moved.game_state.board,
                                        last_move |-> moved.last_move],
                                       moved.room_id, Return)
    /\ UNCHANGED <<connections, user_sessions, creator, game, verdict>>

\* the for loop of unregister_connection over self.rooms.items() from the
\* i-th room on, up to the first await of a room_deleted broadcast that has
\* somebody to send to (stop: the index of that room) or to the end of the
\* dict (stop = 0)
RECURSIVE UnregisterLoop(_, _, _, _)
UnregisterLoop(rs, ws, i, to_delete) ==
    IF i > Len(rs)
    THEN [rooms |-> rs, to_delete |-> to_delete, stop |-> 0]
    ELSE LET removed == RemoveUser(rs[i], ws)
             rs1 == [rs EXCEPT ![i] = removed.room]
         IN  IF removed.should_delete
             THEN IF GetAllUsers(removed.room) \cap connections # {}
                  THEN [rooms |-> rs1,
                        to_delete |-> Append(to_delete, rs[i].room_id),
                        stop |-> i]
                  ELSE UnregisterLoop(rs1, ws, i + 1,
                                      Append(to_delete, rs[i].room_id))
             ELSE UnregisterLoop(rs1, ws, i + 1, to_delete)

\* `del self.rooms[room_id]` for the first k ids of rooms_to_delete
RECURSIVE DeleteRooms(_, _, _)
DeleteRooms(rs, to_delete, k) ==
    IF k = 0 THEN rs
    ELSE SelectSeq(DeleteRooms(rs, to_delete, k - 1),
                   LAMBDA room : room.room_id # to_delete[k])

\* the number of ids of rooms_to_delete that `del` removes before it raises
\* KeyError; all of them when every id is still a key
Deletable(rs, to_delete) ==
    LET gone == {k \in DOMAIN to_delete :
                    to_delete[k] \notin
                        {DeleteRooms(rs, to_delete, k - 1)[n].room_id :
                            n \in DOMAIN DeleteRooms(rs, to_delete, k - 1)}}
    IN  IF gone = {} THEN Len(to_delete)
        ELSE (CHOOSE k \in gone : \A j \in gone : k <= j) - 1

\* a suspended broadcast of another task keeps the board list of a room that
\* is deleted: the list does not change any more
KeepBoards(ts, rs, rs1) ==
    [t \in DOMAIN ts |->
        IF /\ ts[t].kind = "sending"
           /\ ts[t].board_of # NoRoom
           /\ ts[t].board_of \notin {rs1[n].room_id : n \in DOMAIN rs1}
        THEN [ts[t] EXCEPT !.body = BodyNow(ts[t]), !.board_of = NoRoom]
        ELSE ts[t]]

\* unregister_connection from the i-th room of the loop on: it is suspended
\* in the next room_deleted broadcast, or finishes the loop, deletes the
\* rooms and forgets the connection; a KeyError of `del` ends the task before
\* the connection is forgotten.  told is history: the members that this
\* cleanup has sent room_deleted to, with the room
UnregisterFrom(ws, i, to_delete, told) ==
    LET loop == UnregisterLoop(rooms, ws, i, to_delete)
    IN  IF loop.stop # 0
        THEN LET room == loop.rooms[loop.stop]
             IN  /\ rooms' = loop.rooms
                 /\ \E next \in GetAllUsers(room) \cap connections :
                       /\ sent' = <<Msg(next, "room_deleted",
                                        [message |-> "owner left, room closing"])>>
                       /\ tasks' = [tasks EXCEPT ![ws] =
                             Sending(GetAllUsers(room) \ {next}, "room_deleted",
                                 [message |-> "owner left, room closing"], NoRoom,
                                 [kind |-> "unregister", at |-> room.room_id,
                                  size |-> Len(rooms),
                                  to_delete |-> loop.to_delete,
                                  told |-> told \cup {<<room.room_id, next>>}])]
                 /\ UNCHANGED <<connections, user_sessions, creator>>
        ELSE LET k == Deletable(loop.rooms, loop.to_delete)
                 left == DeleteRooms(loop.rooms, loop.to_delete, k)
                 done == k = Len(loop.to_delete)
             IN  /\ rooms' = left
                 /\ creator' = [room_id \in {left[n].room_id : n \in DOMAIN left}
                                   |-> creator[room_id]]
                 /\ sent' = <<>>
                 /\ tasks' = [KeepBoards(tasks, rooms, left) EXCEPT ![ws] =
                                 IF done THEN Closed ELSE Dead]
                 /\ connections' = IF done THEN connections \ {ws} ELSE connections
                 /\ user_sessions' = IF done THEN DictPop(user_sessions, ws)
                                     ELSE user_sessions

\* the connection closes: handle_client's finally calls unregister_connection
Close(ws) ==
    /\ ws \in connections
    /\ tasks[ws] = Idle
    /\ Ran
    /\ UnregisterFrom(ws, 1, <<>>, {})
    /\ UNCHANGED <<game, verdict>>

\* a suspended send completes and the task runs to its next await
Resume(ws) ==
    /\ tasks[ws].kind = "sending"
    /\ LET task == tasks[ws]
       IN  IF task.then.kind # "unregister"
           THEN /\ SendOrThen(ws, task.to, task.type, BodyNow(task),
                              task.board_of, task.then)
                /\ UNCHANGED <<rooms, connections, user_sessions, creator>>
           ELSE IF task.to \cap connections # {}
           THEN /\ \E next \in task.to \cap connections :
                      /\ sent' = <<Msg(next, task.type, task.body)>>
                      /\ tasks' = [tasks EXCEPT
                                      ![ws].to = task.to \ {next},
                                      ![ws].then.told =
                                          @ \cup {<<task.then.at, next>>}]
                /\ UNCHANGED <<rooms, connections, user_sessions, creator>>
           ELSE IF Len(rooms) # task.then.size
           THEN \* RuntimeError: dictionary changed size during iteration
                /\ tasks' = [tasks EXCEPT ![ws] = Dead]
                /\ sent' = <<>>
                /\ UNCHANGED <<rooms, connections, user_sessions, creator>>
           ELSE UnregisterFrom(ws, RoomIndex(task.then.at) + 1,
                               task.then.to_delete, task.then.told)
    /\ UNCHANGED <<ncmds, game, verdict>>

NoVerdict == [color |-> "none", move |-> <<0, 0, 0, 0>>, reason |-> "none"]

Init ==
    /\ connections = {}
    /\ user_sessions = <<>>
    /\ rooms = <<>>
    /\ sent = <<>>
    /\ ncmds = 0
    /\ creator = <<>>
    /\ tasks = [ws \in Conns3 |-> Idle]
    /\ game = NewChessGame
    /\ verdict = NoVerdict

\* the commands of connections C, with names N and room ids R as their inputs
SessionNext(C, N, R) ==
    \E ws \in C :
        \/ RegisterConnection(ws)
        \/ UnregisterConnection(ws)
        \/ \E username \in N : HandleSetUsername(ws, username)
        \/ \E room_id \in R : HandleCreateRoom(ws, NoPassword, room_id)
        \/ \E room_id \in R, join_as \in JoinRoles :
               HandleJoinRoom(ws, room_id, "", join_as)
        \/ HandleLeaveRoom(ws)
        \/ HandleGetRoomList(ws)
        \/ \E chat_text \in ChatTexts : HandleChatMessage(ws, chat_text)
        \/ \E mv \in RoomMoves : HandleMakeMove(ws, mv)
        \/ HandleStartGame(ws)
        \/ \E target \in C, new_role \in NewRoles :
               HandleChangeMemberRole(ws, target, new_role)
        \/ \E target \in C : HandleKickMember(ws, target)
        \/ \E target \in C : HandleMuteMember(ws, target)
        \/ \E target \in C : HandleUnmuteMember(ws, target)

Next == ncmds < MaxCmds /\ SessionNext(Conns, Names, RoomIds)

Spec == Init /\ [][Next]_vars

\* the commands that change who is in a room, for three connections
MemberNext ==
    /\ ncmds < MaxMemberCmds
    /\ \E ws \in Conns3 :
        \/ RegisterConnection(ws)
        \/ UnregisterConnection(ws)
        \/ \E username \in NameChoices(ws) : HandleSetUsername(ws, username)
        \/ \E room_id \in RoomIds : HandleCreateRoom(ws, NoPassword, room_id)
        \/ \E room_id \in RoomIds, join_as \in JoinRoles :
               HandleJoinRoom(ws, room_id, "", join_as)
        \/ HandleLeaveRoom(ws)
        \/ \E target \in Conns3, new_role \in NewRoles :
               HandleChangeMemberRole(ws, target, new_role)
        \/ \E target \in Conns3 : HandleKickMember(ws, target)

MemberSpec == Init /\ [][MemberNext]_vars

\* the commands that bring connections into a room, with any join_as value
JoinNext ==
    /\ ncmds < MaxJoinCmds
    /\ \E ws \in Conns3 :
        \/ RegisterConnection(ws)
        \/ \E username \in NameChoices(ws) : HandleSetUsername(ws, username)
        \/ \E room_id \in RoomIds : HandleCreateRoom(ws, NoPassword, room_id)
        \/ \E room_id \in RoomIds, join_as \in AnyJoinRoles :
               HandleJoinRoom(ws, room_id, "", join_as)
        \/ HandleLeaveRoom(ws)

JoinSpec == Init /\ [][JoinNext]_vars

\* the whole command table, with the inputs that fail the handlers' tests:
\* empty names and texts, passwords, names nobody holds
TableNext ==
    /\ ncmds < MaxTableCmds
    /\ \E ws \in Conns :
        \/ RegisterConnection(ws)
        \/ UnregisterConnection(ws)
        \/ \E username \in Names \cup {""} : HandleSetUsername(ws, username)
        \/ \E room_id \in RoomIds, password \in CreatePasswords :
               HandleCreateRoom(ws, password, room_id)
        \/ \E room_id \in RoomIds, password \in JoinPasswords, join_as \in JoinRoles :
               HandleJoinRoom(ws, room_id, password, join_as)
        \/ HandleLeaveRoom(ws)
        \/ HandleGetRoomList(ws)
        \/ \E chat_text \in TableTexts : HandleChatMessage(ws, chat_text)
        \/ \E mv \in RoomMoves : HandleMakeMove(ws, mv)
        \/ HandleStartGame(ws)
        \/ \E target_username \in Names \cup {""}, msg_content \in TableTexts :
               HandlePrivateMessage(ws, target_username, msg_content)
        \/ \E target \in Conns, new_role \in NewRoles :
               HandleChangeMemberRole(ws, target, new_role)
        \/ \E target \in Conns : HandleKickMember(ws, target)
        \/ HandleGetMemberList(ws)
        \/ \E target \in Conns : HandleMuteMember(ws, target)
        \/ \E target \in Conns : HandleUnmuteMember(ws, target)

TableSpec == Init /\ [][TableNext]_vars

\* the commands of Spec with two room ids to create and join
RoomsNext == ncmds < MaxRoomsCmds /\ SessionNext(Conns, Names, RoomIds2)

RoomsSpec == Init /\ [][RoomsNext]_vars

(***************************************************************************)
(* One ChessGame object on its own: every call is_valid_move(.., color),   *)
(* followed by make_move when the answer is valid (handle_make_move's      *)
(* use of the engine).  ncmds counts the moves made.                       *)
(***************************************************************************)
\* make_move inputs: <<from_row, from_col, to_row, to_col>>
GameMoves ==
    {<<3, 4, 4, 4>>, <<4, 4, 5, 4>>, <<5, 4, 5, 3>>, <<5, 4, 6, 4>>,
     <<6, 4, 5, 4>>, <<5, 4, 4, 4>>, <<4, 4, 4, 3>>, <<4, 4, 3, 4>>,
     <<3, 0, 4, 0>>, <<6, 0, 5, 0>>,
     <<0, 4, 1, 4>>, <<9, 4, 8, 4>>, <<0, 3, 1, 4>>, <<9, 3, 8, 4>>,
     <<2, 1, 2, 4>>, <<7, 7, 0, 7>>, <<2, 7, 9, 7>>, <<2, 4, 6, 4>>, <<6, 4, 9, 4>>,
     <<0, 0, 5, 5>>, <<4, 1, 5, 1>>, <<-1, 0, 0, 0>>, <<0, 0, 0, 1>>}

GameMove(color, mv) ==
    LET reason == IsValidMove(game, mv[1], mv[2], mv[3], mv[4], color)
    IN  /\ verdict' = [color |-> color, move |-> mv, reason |-> reason]
        /\ IF reason = "Valid move"
           THEN /\ ncmds < MaxGameMoves
                /\ game' = MakeMove(game, mv[1], mv[2], mv[3], mv[4])
                /\ ncmds' = ncmds + 1
           ELSE UNCHANGED <<game, ncmds>>
        /\ UNCHANGED <<connections, user_sessions, rooms, sent, creator, tasks>>

GameNext == \E color \in {"red", "black"}, mv \in GameMoves : GameMove(color, mv)

GameSpec == Init /\ [][GameNext]_vars

\* make_move inputs that walk kings, advisors and elephants to the edge of
\* their palace or of the river and then over it
PalaceMoves ==
    {<<0, 4, 1, 4>>, <<1, 4, 1, 3>>, <<1, 3, 1, 2>>,
     <<0, 3, 1, 4>>, <<1, 4, 2, 3>>, <<2, 3, 1, 2>>, <<2, 3, 3, 2>>,
     <<0, 2, 2, 4>>, <<2, 4, 4, 6>>, <<4, 6, 6, 8>>,
     <<9, 4, 8, 4>>, <<8, 4, 8, 5>>, <<8, 5, 8, 6>>,
     <<9, 5, 8, 4>>, <<8, 4, 7, 5>>, <<7, 5, 8, 6>>, <<7, 5, 6, 6>>,
     <<9, 6, 7, 4>>, <<7, 4, 5, 2>>, <<5, 2, 3, 0>>}

PalaceNext == \E color \in {"red", "black"}, mv \in PalaceMoves : GameMove(color, mv)

PalaceSpec == Init /\ [][PalaceNext]_vars

\* two connections that talk, move and join in one room whose log holds up to
\* MaxChatLog entries
ChatNext ==
    /\ ncmds < MaxChatCmds
    /\ \E ws \in Conns :
        \/ RegisterConnection(ws)
        \/ UnregisterConnection(ws)
        \/ HandleSetUsername(ws, AsyncName(ws))
        \/ \E room_id \in RoomIds : HandleCreateRoom(ws, NoPassword, room_id)
        \/ \E room_id \in RoomIds : HandleJoinRoom(ws, room_id, "", "player")
        \/ HandleLeaveRoom(ws)
        \/ \E chat_text \in ChatTexts : HandleChatMessageWithin(ws, chat_text, MaxChatLog)
        \/ \E mv \in RoomMoves : HandleMakeMoveWithin(ws, mv, MaxChatLog)
        \/ HandleStartGame(ws)

ChatSpec == Init /\ [][ChatNext]_vars

\* make_move inputs of a game that ends: the red cannon goes to the middle,
\* takes the pawn before it and then, over the advisor, the black king
EndgameMoves ==
    {<<2, 1, 2, 4>>, <<2, 4, 6, 4>>, <<6, 4, 9, 4>>,
     <<9, 3, 8, 4>>, <<6, 0, 5, 0>>, <<5, 0, 4, 0>>}

\* two players of one room that play a game to its end and go on
EndgameNext ==
    /\ ncmds < MaxEndgameCmds
    /\ \E ws \in Conns :
        \/ RegisterConnection(ws)
        \/ HandleSetUsername(ws, AsyncName(ws))
        \/ \E room_id \in RoomIds : HandleCreateRoom(ws, NoPassword, room_id)
        \/ \E room_id \in RoomIds : HandleJoinRoom(ws, room_id, "", "player")
        \/ HandleStartGame(ws)
        \/ \E mv \in EndgameMoves : HandleMakeMove(ws, mv)

EndgameSpec == Init /\ [][EndgameNext]_vars

\* the connections with their tasks cut at the awaits; a connection is made
\* once, a later one has another id
AsyncNext ==
    \/ /\ ncmds < MaxAsyncCmds
       /\ \E ws \in Conns3 :
           /\ tasks[ws] = Idle
           /\ \/ RegisterConnection(ws)
              \/ HandleSetUsername(ws, AsyncName(ws))
              \/ \E room_id \in RoomIds2 : HandleCreateRoom(ws, NoPassword, room_id)
              \/ \E room_id \in RoomIds2 : HandleJoinRoom(ws, room_id, "", "player")
              \/ AsyncStartGame(ws)
              \/ \E mv \in RoomMoves : AsyncMakeMove(ws, mv)
              \/ Close(ws)
    \/ \E ws \in Conns3 : Resume(ws)

AsyncSpec == Init /\ [][AsyncNext]_vars

\* the connections that come, take their name, make and join rooms and go,
\* with the cleanup cut at its awaits
CleanupNext ==
    \/ /\ ncmds < MaxCleanupCmds
       /\ \E ws \in Conns3 :
           /\ tasks[ws] = Idle
           /\ \/ RegisterConnection(ws)
              \/ HandleSetUsername(ws, AsyncName(ws))
              \/ \E room_id \in RoomIds2 : HandleCreateRoom(ws, NoPassword, room_id)
              \/ \E room_id \in RoomIds2 : HandleJoinRoom(ws, room_id, "", "player")
              \/ Close(ws)
    \/ \E ws \in Conns3 : Resume(ws)

CleanupSpec == Init /\ [][CleanupNext]_vars

(***************************************************************************)
(* Properties.                                                             *)
(***************************************************************************)
\* ws made the room, is the connection the room has bound as its owner, and is
\* in the room
IsOwnerMember(room, ws) ==
    /\ creator[room.room_id] = ws
    /\ room.owner_websocket_id = ws
    /\ ws \in DOMAIN room.members

\* the room a member's commands act on: the first one that lists ws (0: none)
RoomOf(ws) == FirstIndex({n \in DOMAIN rooms : ws \in DOMAIN rooms[n].members})

FramesOfType(frames, type) == {k \in DOMAIN frames : frames[k].type = type}

\* C1: every room has at most two players, and its players and spectators
\* together are exactly the keys of its members map (MemberSpec: any sequence
\* of join_room, leave_room, kick_member, change_member_role and disconnects).
C1_MembershipInvariant ==
    \A i \in DOMAIN rooms :
        /\ Len(rooms[i].players) <= 2
        /\ PlayerIds(rooms[i].players) \cup rooms[i].spectators
               = DOMAIN rooms[i].members

\* a third connection has just joined a room whose two player slots are taken
C1_Witness ==
    \E i \in DOMAIN rooms :
        /\ Len(rooms[i].players) = 2
        /\ Cardinality(DOMAIN rooms[i].members) = 3
        /\ Len(sent) > 0
        /\ sent[1].type = "joined_room"
        /\ sent[1].body.join_as = "spectator"

\* C2: a leave_room by the room's owner, a member of the room, removes the room
\* from the registry.
C2_OwnerLeaveDestroysRoom ==
    [][\A ws \in Conns : \A i \in DOMAIN rooms :
          (IsOwnerMember(rooms[i], ws) /\ HandleLeaveRoom(ws))
              => rooms[i].room_id \notin RoomIdsInUse']_vars

\* C3: when the owner of a room, a member of it, disconnects, the room is
\* removed from the registry.
C3_OwnerDisconnectDestroysRoom ==
    [][\A ws \in Conns : \A i \in DOMAIN rooms :
          (IsOwnerMember(rooms[i], ws) /\ UnregisterConnection(ws))
              => rooms[i].room_id \notin RoomIdsInUse']_vars

\* C4: no two connections of the username registry hold the same name.
C4_UniqueDisplayNames ==
    \A a, b \in DOMAIN user_sessions :
        a # b => user_sessions[a] # user_sessions[b]

\* a set_username asking for a name another session holds was just refused
C4_Witness ==
    /\ Cardinality(DOMAIN user_sessions) = 2
    /\ Len(sent) = 1
    /\ sent[1].type = "error"
    /\ sent[1].body.message = "username taken"

\* C5: a room's current_player is red when the room is created; a step that
\* broadcasts move_made (an accepted make_move) moves a piece of the colour
\* whose turn it is and hands the turn to the other colour; every other step
\* leaves current_player as it is.
C5_TurnsAlternate ==
    [][/\ \A j \in DOMAIN rooms' :
             rooms'[j].room_id \notin RoomIdsInUse
                 => rooms'[j].game_state.current_player = "red"
       /\ \A i \in DOMAIN rooms : \A j \in DOMAIN rooms' :
             rooms[i].room_id = rooms'[j].room_id =>
                 LET before == rooms[i].game_state.current_player
                     after == rooms'[j].game_state.current_player
                     moves == FramesOfType(sent', "move_made")
                 IN  IF moves = {}
                     THEN after = before
                     ELSE /\ after = Opponent(before)
                          /\ \A k \in moves :
                                 rooms[i].game_state.board
                                     [sent'[k].body.from_row][sent'[k].body.from_col].color
                                 = before]_vars

\* a second move has just been accepted: the turn is back with red
C5_Witness ==
    \E i \in DOMAIN rooms :
        /\ FramesOfType(sent, "move_made") # {}
        /\ rooms[i].game_state.current_player = "red"
        /\ rooms[i].game_state.board # InitialBoard

\* both kings on one column with nothing between them
FlyingGeneral(board) ==
    \E col \in 0..8 :
        LET kings == {r \in 0..9 : board[r][col].type = "king"}
        IN  /\ Cardinality(kings) = 2
            /\ \A r \in 0..9 :
                   (\E a, b \in kings : a < r /\ r < b) => board[r][col] = None

\* C6: the board is never in a flying-general position, and a move that passes
\* every other test of is_valid_move is answered "Kings cannot face each other
\* directly" exactly when the board it would leave is one (GameSpec).
C6_NoFlyingGeneral ==
    /\ ~FlyingGeneral(game.board)
    /\ \A color \in {"red", "black"}, mv \in GameMoves :
          LET reason == IsValidMove(game, mv[1], mv[2], mv[3], mv[4], color)
          IN  reason \in {"Valid move", "Kings cannot face each other directly"}
                  => (reason = "Kings cannot face each other directly"
                        <=> FlyingGeneral(
                                MovedBoard(game.board, mv[1], mv[2], mv[3], mv[4])))

\* a move was just refused because it would leave the kings facing
C6_Witness == verdict.reason = "Kings cannot face each other directly"

\* ws is muted in the room: by the room's mute set or by its member record
MutedIn(room, ws) ==
    \/ ws \in room.muted_members
    \/ ws \in DOMAIN room.members /\ room.members[ws].is_muted

\* C7: a chat_message of a member that is muted in its room leaves every room
\* (so every chat log) as it is and sends one frame only: chat_rejected, to the
\* sender.
C7_MutedChatRejected ==
    [][\A ws \in Conns : \A chat_text \in ChatTexts :
          (/\ RoomOf(ws) # 0
           /\ MutedIn(rooms[RoomOf(ws)], ws)
           /\ HandleChatMessage(ws, chat_text))
              => /\ rooms' = rooms
                 /\ Len(sent') = 1
                 /\ sent'[1].to = ws
                 /\ sent'[1].type = "chat_rejected"]_vars

\* a muted member's chat_message was just refused
C7_Witness ==
    /\ Len(sent) = 1
    /\ sent[1].type = "chat_rejected"
    /\ RoomOf(sent[1].to) # 0
    /\ rooms[RoomOf(sent[1].to)].chat_history = <<>>

\* C8: a kick_member or mute_member aimed at the room's owner, a member of the
\* room, leaves the owner a member with the same role and outside the mute set.
C8_OwnerNeverKickedOrMuted ==
    [][\A ws \in Conns : \A target \in Conns : \A i \in DOMAIN rooms :
          (/\ IsOwnerMember(rooms[i], target)
           /\ (HandleKickMember(ws, target) \/ HandleMuteMember(ws, target)))
              => /\ i \in DOMAIN rooms'
                 /\ target \in DOMAIN rooms'[i].members
                 /\ rooms'[i].members[target].role = rooms[i].members[target].role
                 /\ target \notin rooms'[i].muted_members]_vars

\* who is in a room, and as what
Membership(room) ==
    [members |-> room.members, players |-> room.players,
     spectators |-> room.spectators]

\* C9: for a connection that is not in room R, a join_room(R) that is let in
\* followed by its leave_room leaves R's members, players and spectators as
\* they were before the join (RoomsSpec).
C9_JoinThenLeaveRestores ==
    \A ws \in Conns : \A room_id \in RoomIds2 : \A join_as \in JoinRoles :
        (/\ ws \in connections
         /\ JoinError(ws, room_id, "") = ""
         /\ ws \notin DOMAIN rooms[RoomIndex(room_id)].members)
            => Membership(LeftRooms(JoinedRooms(ws, room_id, join_as), ws)
                              [RoomIndex(room_id)])
               = Membership(rooms[RoomIndex(room_id)])

\* C10: a step that sends move_rejected (a make_move the rules engine refused)
\* has appended one entry by "System" to the chat log of the caller's room and
\* sends that entry as chat_message once to every member of the room, and after
\* all of these one move_rejected, to the caller.
C10_AccusationBeforeRejection ==
    [][\A ws \in Conns : \A mv \in RoomMoves :
          (HandleMakeMove(ws, mv) /\ FramesOfType(sent', "move_rejected") # {})
              => LET n == Len(sent')
                     i == FirstIndex({m \in DOMAIN rooms : ws \in PlayerIds(rooms[m].players)})
                     log == rooms'[i].chat_history
                 IN  /\ sent'[n].type = "move_rejected"
                     /\ sent'[n].to = ws
                     /\ \A k \in 1..(n - 1) :
                            /\ sent'[k].type = "chat_message"
                            /\ sent'[k].body.username = "System"
                            /\ sent'[k].body.message = log[Len(log)].message
                     /\ {sent'[k].to : k \in 1..(n - 1)} = DOMAIN rooms[i].members
                     /\ n - 1 = Cardinality(DOMAIN rooms[i].members)
                     /\ Len(log) = Len(rooms[i].chat_history) + 1
                     /\ log[Len(log)].username = "System"]_vars

\* a move was just refused in a room with two members
C10_Witness ==
    /\ Len(sent) = 3
    /\ sent[3].type = "move_rejected"
    /\ sent[1].type = "chat_message"

\* the reasons of is_valid_move, in the order the contract lists its tests
Reasons ==
    <<"Invalid position", "No piece at source position", "Not your piece",
      "Not your turn", "Cannot capture your own piece",
      "Invalid move for this piece", "Kings cannot face each other directly">>

InBounds(mv) ==
    /\ mv[1] \in 0..9 /\ mv[2] \in 0..8
    /\ mv[3] \in 0..9 /\ mv[4] \in 0..8

\* the tests of the contract that the move mv of a player of the colour fails
\* on the game g, each test taken on its own (1..7, numbered as in Reasons);
\* a test that needs a square or a piece that is not there does not count
FailedTests(g, mv, color) ==
    LET piece == g.board[mv[1]][mv[2]]
        target == g.board[mv[3]][mv[4]]
    IN  {k \in 1..7 :
            \/ k = 1 /\ ~InBounds(mv)
            \/ k = 2 /\ InBounds(mv) /\ piece = None
            \/ k = 3 /\ InBounds(mv) /\ piece # None /\ piece.color # color
            \/ k = 4 /\ g.current_player # color
            \/ k = 5 /\ InBounds(mv) /\ target # None /\ target.color = color
            \/ k = 6 /\ InBounds(mv) /\ piece # None
                     /\ ~IsValidPieceMove(g.board, piece.type,
                                          mv[1], mv[2], mv[3], mv[4], piece.color)
            \/ k = 7 /\ InBounds(mv) /\ piece # None
                     /\ FlyingGeneral(MovedBoard(g.board, mv[1], mv[2], mv[3], mv[4]))}

\* C15: is_valid_move answers with the reason of the first test, in the order
\* out-of-bounds, empty source, not the mover's piece, not the mover's turn,
\* own-colour target, piece geometry, flying general, that the move fails, and
\* with "Valid move" only when it fails none (GameSpec).
C15_FirstFailureWins ==
    \A color \in {"red", "black"} : \A mv \in GameMoves :
        LET failed == FailedTests(game, mv, color)
            reason == IsValidMove(game, mv[1], mv[2], mv[3], mv[4], color)
        IN  IF failed = {} THEN reason = "Valid move"
            ELSE reason = Reasons[CHOOSE k \in failed : \A j \in failed : k <= j]

\* a move was just answered "Not your piece" though it was not the mover's turn
\* either, and its geometry was wrong as well
C15_Witness ==
    /\ verdict.reason = "Not your piece"
    /\ {3, 4, 6} \subseteq FailedTests(game, verdict.move, verdict.color)

\* C16: a make_move that is answered move_rejected changes nothing of any room
\* but the chat log of the caller's room, which grows by one System entry (so
\* board, current_player, status, winner and last_move stay); a make_move that
\* is broadcast as move_made leaves last_move holding that move's four
\* coordinates and the mover's display name.
C16_MoveFrame ==
    [][\A ws \in Conns : \A mv \in RoomMoves :
          HandleMakeMove(ws, mv) =>
              LET i == FirstIndex({m \in DOMAIN rooms :
                                      ws \in PlayerIds(rooms[m].players)})
              IN  /\ FramesOfType(sent', "move_rejected") # {} =>
                        LET log == rooms'[i].chat_history
                        IN  /\ rooms' = [rooms EXCEPT ![i].chat_history =
                                            Append(@, log[Len(log)])]
                            /\ log[Len(log)].username = "System"
                  /\ FramesOfType(sent', "move_made") # {} =>
                        rooms'[i].last_move =
                            [from_row |-> mv[1], from_col |-> mv[2],
                             to_row |-> mv[3], to_col |-> mv[4],
                             player |-> user_sessions[ws]]]_vars

\* a move was just refused in a room that has seen an accepted move: the
\* accepted move is still the room's last_move
C16_Witness ==
    /\ FramesOfType(sent, "move_rejected") # {}
    /\ \E i \in DOMAIN rooms :
          /\ rooms[i].last_move # NoLastMove
          /\ rooms[i].last_move.from_row # rooms[i].last_move.to_row
          /\ rooms[i].game_state.board # InitialBoard

\* a king is not on the board
KingMissing(board) ==
    \E color \in {"red", "black"} :
        \A row \in 0..9 : \A col \in 0..8 :
            ~(board[row][col].type = "king" /\ board[row][col].color = color)

\* C17: an accepted move that leaves a king missing from the board leaves the
\* game finished and won by the colour that moved; an accepted move that leaves
\* both kings on the board leaves status and winner as they were (GameSpec).
C17_KingCaptureEndsGame ==
    [][game' # game =>
          IF KingMissing(game'.board)
          THEN /\ game'.game_status = "finished"
               /\ game'.winner = verdict'.color
               /\ game'.winner = game.current_player
          ELSE /\ game'.game_status = game.game_status
               /\ game'.winner = game.winner]_vars

\* the last move took a king
C17_Witness ==
    /\ verdict.reason = "Valid move"
    /\ KingMissing(game.board)
    /\ game.game_status = "finished"
    /\ game.winner = verdict.color

\* C18: a join_room that is let in as join_as = player into a room with two
\* players leaves the caller a spectator, and the role joined_room reports is
\* the role of the caller's member record, which is player or spectator for
\* every join_as value (JoinSpec).
C18_ReportedRoleIsStoredRole ==
    [][\A ws \in Conns3 : \A room_id \in RoomIds : \A join_as \in AnyJoinRoles :
          (HandleJoinRoom(ws, room_id, "", join_as)
           /\ FramesOfType(sent', "joined_room") # {})
              => LET i == RoomIndex(room_id)
                     record == rooms'[i].members[ws]
                 IN  /\ record.role \in {"player", "spectator"}
                     /\ sent'[1].body.join_as = record.role
                     /\ (join_as = "player" /\ Len(rooms[i].players) >= 2)
                            => /\ record.role = "spectator"
                               /\ ws \in rooms'[i].spectators]_vars

\* ws may start the game of the room: it is the connection that made the
\* room, it is one of the room's players, and the room has two players
MayStartGame(room, ws) ==
    /\ creator[room.room_id] = ws
    /\ ws \in PlayerIds(room.players)
    /\ Len(room.players) = 2

\* C19: a start_game changes the game status of a room, and then to playing,
\* only if the caller is the room's owner and a player of it and the room has
\* two players; a start_game of a caller that may start no room changes no
\* room and sends one frame only, an error to the caller.
C19_OnlyOwnerPlayerStarts ==
    [][\A ws \in Conns : HandleStartGame(ws) =>
          /\ \A i \in DOMAIN rooms :
                rooms'[i].game_state.game_status # rooms[i].game_state.game_status
                    => /\ MayStartGame(rooms[i], ws)
                       /\ rooms'[i].game_state.game_status = "playing"
          /\ (\A i \in DOMAIN rooms : ~MayStartGame(rooms[i], ws))
                => /\ rooms' = rooms
                   /\ Len(sent') = 1
                   /\ sent'[1].type = "error"
                   /\ sent'[1].to = ws]_vars

\* the step answers ws with one error frame, sends nothing else and leaves the
\* registries as they are
ErrorToCallerOnly(ws) ==
    /\ Len(sent') = 1
    /\ sent'[1].type = "error"
    /\ sent'[1].to = ws
    /\ UNCHANGED <<rooms, user_sessions, connections>>

\* the step is a command of ws that acts on the room ws is in
RoomCommand(ws) ==
    \/ \E chat_text \in TableTexts : HandleChatMessage(ws, chat_text)
    \/ \E mv \in RoomMoves : HandleMakeMove(ws, mv)
    \/ HandleStartGame(ws)
    \/ HandleGetMemberList(ws)
    \/ \E target \in Conns, new_role \in NewRoles :
           HandleChangeMemberRole(ws, target, new_role)
    \/ \E target \in Conns : HandleKickMember(ws, target)
    \/ \E target \in Conns : HandleMuteMember(ws, target)
    \/ \E target \in Conns : HandleUnmuteMember(ws, target)

\* the step is a command of ws that only the owner of its room may give
OwnerCommand(ws, target) ==
    \/ \E new_role \in NewRoles : HandleChangeMemberRole(ws, target, new_role)
    \/ HandleKickMember(ws, target)
    \/ HandleMuteMember(ws, target)
    \/ HandleUnmuteMember(ws, target)

\* the step is a command of ws that needs ws to have set a username
NamedCommand(ws) ==
    \/ \E room_id \in RoomIds, password \in CreatePasswords :
           HandleCreateRoom(ws, password, room_id)
    \/ \E room_id \in RoomIds, password \in JoinPasswords, join_as \in JoinRoles :
           HandleJoinRoom(ws, room_id, password, join_as)
    \/ \E target_username \in Names \cup {""}, msg_content \in TableTexts :
           HandlePrivateMessage(ws, target_username, msg_content)
    \/ RoomCommand(ws) /\ ~HandleGetMemberList(ws)

\* ws is the owner of the room by none of the marks the handlers go by
NotOwner(room, ws) ==
    /\ creator[room.room_id] # ws
    /\ room.owner_websocket_id # ws
    /\ room.owner # user_sessions[ws]

\* C20: a command that fails a precondition -- the caller has set no username,
\* is in no room, is not the owner of its room, names a target that is not
\* there, gives a wrong password or an empty text -- is answered with one error
\* frame to the caller, sends nothing else and changes nothing (TableSpec).
C20_PreconditionErrors ==
    [][\A ws \in Conns :
          /\ (ws \notin DOMAIN user_sessions /\ NamedCommand(ws))
                => ErrorToCallerOnly(ws)
          /\ (ws \in DOMAIN user_sessions /\ RoomOf(ws) = 0 /\ RoomCommand(ws))
                => ErrorToCallerOnly(ws)
          /\ (/\ ws \in DOMAIN user_sessions
              /\ RoomOf(ws) # 0
              /\ NotOwner(rooms[RoomOf(ws)], ws)
              /\ (HandleStartGame(ws) \/ \E target \in Conns : OwnerCommand(ws, target)))
                => ErrorToCallerOnly(ws)
          /\ (/\ ws \in DOMAIN user_sessions
              /\ RoomOf(ws) # 0
              /\ \E target \in Conns :
                    /\ target \notin DOMAIN rooms[RoomOf(ws)].members
                    /\ OwnerCommand(ws, target))
                => ErrorToCallerOnly(ws)
          /\ (/\ ws \in DOMAIN user_sessions
              /\ \E target_username \in Names :
                    /\ \A t \in DOMAIN user_sessions :
                           user_sessions[t] # target_username
                    /\ HandlePrivateMessage(ws, target_username, "hi"))
                => ErrorToCallerOnly(ws)
          /\ (/\ ws \in DOMAIN user_sessions
              /\ \E room_id \in RoomIdsInUse, password \in JoinPasswords,
                    join_as \in JoinRoles :
                    /\ rooms[RoomIndex(room_id)].password # NoPassword
                    /\ rooms[RoomIndex(room_id)].password # password
                    /\ HandleJoinRoom(ws, room_id, password, join_as))
                => ErrorToCallerOnly(ws)
          /\ (/\ ws \in DOMAIN user_sessions
              /\ \/ HandleChatMessage(ws, "")
                 \/ \E target_username \in Names :
                        HandlePrivateMessage(ws, target_username, ""))
                => ErrorToCallerOnly(ws)]_vars

\* the room with this id
RoomOfId(room_id) == rooms[RoomIndex(room_id)]

\* what a move writes: board, current_player, status, winner, last_move
MoveState(room) == <<room.game_state, room.last_move>>

\* ws is free to take mv as a player of the room and is_valid_move accepts it
\* on the room as it is now
AcceptedNow(room, ws, mv) ==
    /\ tasks[ws] = Idle
    /\ ws \in DOMAIN user_sessions
    /\ ws \in PlayerIds(room.players)
    /\ Len(room.players) = 2
    /\ IsValidMove(room.game_state, mv[1], mv[2], mv[3], mv[4],
                   IF room.players[1].ws = ws THEN "red" ELSE "black") = "Valid move"

\* C11: between two points where another command can run, the board,
\* current_player, status, winner and last_move of a room change only
\* all together, from the state a move was validated on to the state of that
\* move fully applied (start_game changes the status alone); no step leaves
\* a move half applied and no move is applied to a state other than the one it
\* was checked on
C11_MoveAppliedWhole ==
    [][\A room_id \in RoomIdsInUse :
          LET room == RoomOfId(room_id)
          IN  (room_id \in RoomIdsInUse' /\ MoveState(RoomOfId(room_id)') # MoveState(room))
              => \/ \E ws \in Conns3, mv \in RoomMoves :
                       /\ AcceptedNow(room, ws, mv)
                       /\ RoomOfId(room_id)'.game_state =
                              MakeMove(room.game_state, mv[1], mv[2], mv[3], mv[4])
                       /\ RoomOfId(room_id)'.last_move = LastMove(mv, user_sessions[ws])
                 \/ /\ RoomOfId(room_id)'.game_state =
                           [room.game_state EXCEPT !.game_status = "playing"]
                    /\ RoomOfId(room_id)'.last_move = room.last_move]_vars

\* a move is applied and its broadcast is suspended while the task of another
\* connection is suspended in a send of its own
C11_Witness ==
    \E ws, other \in Conns3 :
        /\ ws # other
        /\ tasks[ws].kind = "sending" /\ tasks[ws].type = "move_made"
        /\ tasks[other].kind = "sending"
        /\ \E n \in DOMAIN rooms : rooms[n].last_move # NoLastMove

\* C12: the frames of one move_made or game_started broadcast carry the same
\* board: a frame sent after a suspension carries the board of the frame sent
\* before it
C12_OneBoardPerBroadcast ==
    [][\A ws \in Conns3 :
          (/\ tasks[ws].kind = "sending"
           /\ tasks[ws].type \in {"move_made", "game_started"}
           /\ tasks'[ws] # tasks[ws]
           /\ sent' # <<>>
           /\ sent'[1].type = tasks[ws].type)
          => sent'[1].body.board = tasks[ws].body.board]_vars

\* C13: a cleanup that has ended has left the connection in no room, not in
\* the connection registry and not in the username registry
C13_CleanupForgetsConnection ==
    \A ws \in Conns3 :
        tasks[ws] \in {Closed, Dead}
        => /\ ws \notin connections
           /\ ws \notin DOMAIN user_sessions
           /\ \A n \in DOMAIN rooms : ws \notin DOMAIN rooms[n].members

\* the members that the cleanup task of ws has sent room_deleted to
Told(ws) ==
    IF tasks[ws].kind = "sending" /\ tasks[ws].then.kind = "unregister"
    THEN tasks[ws].then.told
    ELSE {}

\* C14: when the cleanup of ws removes a room from the registry, every other
\* member the room has at that moment has been sent room_deleted for it, and
\* keeps its user session
C14_MembersToldBeforeRemoval ==
    [][\A ws \in Conns3, room_id \in RoomIdsInUse :
          (tasks'[ws] \in {Closed, Dead} /\ tasks[ws] # tasks'[ws]
           /\ room_id \notin RoomIdsInUse')
          => \A member \in GetAllUsers(RoomOfId(room_id)) \ {ws} :
                /\ <<room_id, member>> \in Told(ws)
                /\ member \in DOMAIN user_sessions']_vars

\* ws is in a room and has made none of the rooms it is in
MemberNotCreator(ws) ==
    /\ RoomOf(ws) # 0
    /\ \A n \in DOMAIN rooms :
          ws \in DOMAIN rooms[n].members => creator[rooms[n].room_id] # ws

\* C21: a kick_member, mute_member, unmute_member or change_member_role of a
\* named connection that is in a room it did not make is answered with one
\* error frame to the caller and changes no room: nobody's membership, role or
\* mute flag.
C21_NonOwnerCommandsRefused ==
    [][\A ws \in Conns : \A target \in Conns :
          (/\ ws \in DOMAIN user_sessions
           /\ MemberNotCreator(ws)
           /\ OwnerCommand(ws, target))
          => ErrorToCallerOnly(ws)]_vars

\* ws is a member of the room with this id
MemberOf(ws, room_id) ==
    /\ room_id \in RoomIdsInUse
    /\ ws \in DOMAIN RoomOfId(room_id).members

\* C22: a connection that is a member of a private room after a step and was
\* not before became one by a join_room of its own whose password is the
\* room's; a join_room of a named connection whose password is not that of the
\* private room it names is answered with the one frame error "Incorrect
\* password" to the caller and changes no room (TableSpec).
C22_PrivateRoomNeedsPassword ==
    [][\A ws \in Conns : \A room_id \in RoomIds :
          /\ (/\ MemberOf(ws, room_id)'
              /\ IsPrivate(RoomOfId(room_id))'
              /\ ~MemberOf(ws, room_id))
                => /\ room_id \in RoomIdsInUse
                   /\ RoomOfId(room_id).password = RoomOfId(room_id).password'
                   /\ \E join_as \in JoinRoles :
                         HandleJoinRoom(ws, room_id, RoomOfId(room_id).password, join_as)
          /\ \A password \in JoinPasswords : \A join_as \in JoinRoles :
                (/\ ws \in DOMAIN user_sessions
                 /\ room_id \in RoomIdsInUse
                 /\ IsPrivate(RoomOfId(room_id))
                 /\ password # RoomOfId(room_id).password
                 /\ HandleJoinRoom(ws, room_id, password, join_as))
                    => /\ ErrorToCallerOnly(ws)
                       /\ sent'[1].body = ErrorBody("Incorrect password")]_vars

\* a connection has just been let into a private room
C22_Witness ==
    \E ws \in Conns : \E room_id \in RoomIds :
        /\ MemberOf(ws, room_id)
        /\ IsPrivate(RoomOfId(room_id))
        /\ Len(sent) > 0
        /\ sent[1].type = "joined_room"
        /\ sent[1].to = ws

\* the squares strictly between two squares of one row or one column that hold
\* a piece
Screens(board, fr, fc, tr, tc) ==
    IF fr = tr
    THEN {<<fr, col>> : col \in {c \in 0..8 :
             /\ (fc < c /\ c < tc) \/ (tc < c /\ c < fc)
             /\ board[fr][c] # None}}
    ELSE {<<row, fc>> : row \in {r \in 0..9 :
             /\ fc = tc
             /\ (fr < r /\ r < tr) \/ (tr < r /\ r < fr)
             /\ board[r][fc] # None}}

\* the cannons of the board, each with the squares of its row and its column
CannonLines(board) ==
    UNION {{<<sq[1], sq[2], sq[1], col>> : col \in 0..8}
               \cup {<<sq[1], sq[2], row, sq[2]>> : row \in 0..9} :
           sq \in {s \in (0..9) \X (0..8) :
                      /\ board[s[1]][s[2]] # None
                      /\ board[s[1]][s[2]].type = "cannon"}}

\* C23: on every board of a game, for a cannon and a target in its row or its
\* column, _is_valid_cannon_move is true exactly when the target is empty and no
\* piece is strictly between, or the target holds a piece and exactly one piece
\* is strictly between; with two or more pieces between it is false (GameSpec).
C23_CannonScreens ==
    \A ln \in CannonLines(game.board) :
        LET screens == Screens(game.board, ln[1], ln[2], ln[3], ln[4])
            target == game.board[ln[3]][ln[4]]
            valid == IsValidCannonMove(game.board, ln[1], ln[2], ln[3], ln[4])
        IN  /\ valid <=> \/ target = None /\ screens = {}
                         \/ target # None /\ \E sq \in screens : screens = {sq}
            /\ (\E sq \in screens : screens # {sq}) => ~valid

\* a cannon has just taken a piece over its screen, and on the board it left a
\* cannon has a target behind two pieces or more, one behind one piece and an
\* occupied one with nothing between
C23_Witness ==
    /\ verdict.reason = "Valid move"
    /\ game.board[verdict.move[3]][verdict.move[4]] # None
    /\ game.board[verdict.move[3]][verdict.move[4]].type = "cannon"
    /\ Cardinality({sq \in (0..9) \X (0..8) : game.board[sq[1]][sq[2]] # None}) < 32
    /\ \E ln \in CannonLines(game.board) :
          Cardinality(Screens(game.board, ln[1], ln[2], ln[3], ln[4])) >= 2
    /\ \E ln \in CannonLines(game.board) :
          /\ Cardinality(Screens(game.board, ln[1], ln[2], ln[3], ln[4])) = 1
          /\ game.board[ln[3]][ln[4]] # None
    /\ \E ln \in CannonLines(game.board) :
          /\ Screens(game.board, ln[1], ln[2], ln[3], ln[4]) = {}
          /\ game.board[ln[3]][ln[4]] # None
          /\ <<ln[1], ln[2]>> # <<ln[3], ln[4]>>

\* the squares of a colour's palace
Palace(color) ==
    IF color = "red" THEN (0..2) \X (3..5) ELSE (7..9) \X (3..5)

\* the rows of a colour's side of the river
OwnSide(color) == IF color = "red" THEN 0..4 ELSE 5..9

\* C24: on every board that accepted moves lead to from the initial position
\* each king and each advisor stands in the palace of its colour (red rows 0-2,
\* black rows 7-9, columns 3-5) and each elephant on its colour's side of the
\* river (red rows 0-4, black rows 5-9) (PalaceSpec).
C24_PalaceAndRiver ==
    \A row \in 0..9 : \A col \in 0..8 :
        LET piece == game.board[row][col]
        IN  piece # None =>
               /\ piece.type \in {"king", "advisor"} => <<row, col>> \in Palace(piece.color)
               /\ piece.type = "elephant" => row \in OwnSide(piece.color)

\* a king, an advisor or an elephant that has left its first square has just
\* been refused, for its geometry, a step out of its palace or over the river
C24_Witness ==
    /\ verdict.reason = "Invalid move for this piece"
    /\ InBounds(verdict.move)
    /\ LET piece == game.board[verdict.move[1]][verdict.move[2]]
       IN  /\ piece # None
           /\ piece.type \in {"king", "advisor", "elephant"}
           /\ InitialBoard[verdict.move[1]][verdict.move[2]] = None
           /\ piece.type \in {"king", "advisor"} =>
                 /\ Abs(verdict.move[3] - verdict.move[1]) <= 1
                 /\ Abs(verdict.move[4] - verdict.move[2]) <= 1
                 /\ <<verdict.move[3], verdict.move[4]>> \notin Palace(piece.color)
           /\ piece.type = "elephant" =>
                 /\ Abs(verdict.move[3] - verdict.move[1]) = 2
                 /\ Abs(verdict.move[4] - verdict.move[2]) = 2
                 /\ verdict.move[3] \notin OwnSide(piece.color)

\* log is what another log began with
IsPrefix(log, longer) ==
    /\ Len(log) <= Len(longer)
    /\ \A k \in 1..Len(log) : longer[k] = log[k]

\* C25: for as long as a room exists every step leaves the chat log it had as
\* the beginning of the log it has, entry by entry, and the chat_history of a
\* joined_room frame is the whole log of the room joined, in its order, System
\* entries of rejected moves among them (ChatSpec).
C25_ChatLogAppendOnly ==
    [][/\ \A room_id \in RoomIds :
             (room_id \in RoomIdsInUse /\ (room_id \in RoomIdsInUse)')
                 => IsPrefix(RoomOfId(room_id).chat_history,
                             RoomOfId(room_id).chat_history')
       /\ \A k \in FramesOfType(sent', "joined_room") :
             \E room_id \in RoomIds :
                 /\ sent'[k].body.room_id = room_id
                 /\ (room_id \in RoomIdsInUse)'
                 /\ sent'[k].body.chat_history = RoomOfId(room_id).chat_history']_vars

\* a connection has just been let into a room after a move was rejected and a
\* member spoke there: the log it was sent has both entries
C25_Witness ==
    /\ FramesOfType(sent, "joined_room") # {}
    /\ \E i \in DOMAIN rooms :
          LET log == rooms[i].chat_history
          IN  /\ Len(log) >= 2
              /\ \E k \in DOMAIN log : log[k].username = "System"
              /\ \E k \in DOMAIN log : log[k].username # "System"
              /\ sent[1].body.chat_history = log

\* C26: in every room no connection is both in players and in spectators, and
\* a member whose record says player is in players and any other member is in
\* spectators and not in players, also after a member has sent join_room for
\* its room again.
C26_RoleMatchesSet ==
    \A i \in DOMAIN rooms :
        /\ PlayerIds(rooms[i].players) \cap rooms[i].spectators = {}
        /\ \A ws \in DOMAIN rooms[i].members :
              IF rooms[i].members[ws].role = "player"
              THEN ws \in PlayerIds(rooms[i].players)
              ELSE /\ ws \in rooms[i].spectators
                   /\ ws \notin PlayerIds(rooms[i].players)

\* C27: in every room owner_websocket_id is unbound or the connection that made
\* the room, and get_member_list marks no member but that connection with
\* is_owner, whatever names were set, released and taken.
C27_OwnerIsCreator ==
    \A i \in DOMAIN rooms :
        /\ rooms[i].owner_websocket_id \in {NoWs, creator[rooms[i].room_id]}
        /\ \A ws \in DOMAIN rooms[i].members :
              GetMemberList(rooms[i])[ws].is_owner => ws = creator[rooms[i].room_id]

\* the change_member_role of ws asks for the role its target already has in
\* the room the handler picks
SameRoleAsked(ws, target, new_role) ==
    /\ ws \in DOMAIN user_sessions
    /\ OwnedRoomByName(ws) # 0
    /\ target \in DOMAIN rooms[OwnedRoomByName(ws)].members
    /\ rooms[OwnedRoomByName(ws)].members[target].role = new_role

\* C28: a change_member_role that is answered "Failed to change role", or that
\* asks for the role its target already has, leaves every room as it was, the
\* order of its players map included.
C28_FailedRoleChangeKeepsRoom ==
    [][\A ws \in Conns : \A target \in Conns : \A new_role \in NewRoles :
          (/\ HandleChangeMemberRole(ws, target, new_role)
           /\ \/ sent' = <<Msg(ws, "error", ErrorBody("Failed to change role"))>>
              \/ SameRoleAsked(ws, target, new_role))
              => UNCHANGED rooms]_vars

\* the colour handle_make_move has ws move as: red for the first entry of the
\* players map, black for any other
ColorOf(room, ws) == IF room.players[1].ws = ws THEN "red" ELSE "black"

\* C29: a connection that is a player of a room before and after a step has the
\* same colour after it as before, whatever the step is.
C29_ColorStable ==
    [][\A ws \in Conns : \A room_id \in RoomIds :
          (/\ room_id \in RoomIdsInUse
           /\ (room_id \in RoomIdsInUse)'
           /\ ws \in PlayerIds(RoomOfId(room_id).players)
           /\ (ws \in PlayerIds(RoomOfId(room_id).players))')
              => ColorOf(RoomOfId(room_id), ws)' = ColorOf(RoomOfId(room_id), ws)]_vars

\* C30: a step taken while a room's game status is waiting leaves the room's
\* board and current_player as they were: no make_move is accepted before a
\* start_game has set the status to playing.
C30_NoMoveWhileWaiting ==
    [][\A room_id \in RoomIds :
          (/\ room_id \in RoomIdsInUse
           /\ (room_id \in RoomIdsInUse)'
           /\ creator'[room_id] = creator[room_id]
           /\ RoomOfId(room_id).game_state.game_status = "waiting")
              => /\ RoomOfId(room_id).game_state.board'
                        = RoomOfId(room_id).game_state.board
                 /\ RoomOfId(room_id).game_state.current_player'
                        = RoomOfId(room_id).game_state.current_player]_vars

\* C31: a step taken while a room's game status is finished leaves the room's
\* status, winner and board as they were: no later make_move is accepted and
\* start_game does not set the status back to playing (EndgameSpec).
C31_FinishedIsFinal ==
    [][\A room_id \in RoomIds :
          (/\ room_id \in RoomIdsInUse
           /\ (room_id \in RoomIdsInUse)'
           /\ RoomOfId(room_id).game_state.game_status = "finished")
              => /\ RoomOfId(room_id).game_state.game_status' = "finished"
                 /\ RoomOfId(room_id).game_state.winner'
                        = RoomOfId(room_id).game_state.winner
                 /\ RoomOfId(room_id).game_state.board'
                        = RoomOfId(room_id).game_state.board]_vars

\* C32: in every room muted_members is the set of the members whose record has
\* is_muted set, so a connection's chat is rejected exactly when the member
\* list shows it muted, also after a muted member has left, been kicked or
\* joined again.
C32_MutedSetMatchesRecords ==
    \A i \in DOMAIN rooms :
        rooms[i].muted_members
            = {ws \in DOMAIN rooms[i].members : rooms[i].members[ws].is_muted}

\* C33: every connection is a member of at most one room (RoomsSpec).
C33_OneRoomPerConnection ==
    \A ws \in Conns :
        Cardinality({i \in DOMAIN rooms : ws \in DOMAIN rooms[i].members}) <= 1

\* C34: every room of the registry was made by a connection that is still
\* registered, whether or not that connection ever joined the room.
C34_CreatorStillConnected ==
    \A i \in DOMAIN rooms : creator[rooms[i].room_id] \in connections

====
